---- MODULE Spec2Model ----
(***************************************************************************)
(* Verification model of the Vix front end (src/Token/parser.rs and        *)
(* src/Token/helper/operations.rs).                                         *)
(*                                                                         *)
(* The parser is a recursive-descent parser over a token vector with a     *)
(* cursor `pos` and a diagnostics vector `diags`.  Every parsing function  *)
(* of the source is an operator from parser state to parser state.  The    *)
(* parser state is                                                         *)
(*      [pos, diags, halt, out]                                            *)
(* where `out` is the stack of the values built so far that are still held *)
(* in local variables of the running functions (a function leaves the     *)
(* value it returns on top), and `halt` is "" while the parser runs,       *)
(* "panic" once a panic!/unwrap() of the source has fired, "hang" once     *)
(* control has entered a loop of the source whose guard can never become   *)
(* false again, and "unmodelled" when control reaches a match arm of the   *)
(* source that this model leaves out.                                      *)
(***************************************************************************)
EXTENDS Integers, Sequences, FiniteSets, TLC

VARIABLES
    tokens,       \* Parser.tokens : Vec<Token>
    pos,          \* Parser.pos    : usize (0-based cursor)
    diags,        \* Parser.diags  : Vec<ParseDiagnostic>
    pc,           \* position of Parser::parse / of the driver of a specification
    prog,         \* the vectors Parser::parse fills (import_decls, functions, ...)
    ctx,          \* ImportContext
    undefined,    \* UndefinedFunctions.library_functions
    last,         \* the arguments and start state of the last call made by a driver
    gen           \* Codegen (<<>> where no code generator exists)

vars == <<tokens, pos, diags, pc, prog, ctx, undefined, last, gen>>

(***************************************************************************)
(* Tokens.  A token is its variant `k` plus its payload `v` (the text of   *)
(* an Identifier / TypeIdentifier / String / Number, "" otherwise).        *)
(***************************************************************************)
Tk(kind) == [k |-> kind, v |-> ""]
Id(name) == [k |-> "Identifier", v |-> name]
TyId(name) == [k |-> "TypeIdentifier", v |-> name]
StrTok(text) == [k |-> "String", v |-> text]
NumTok(text) == [k |-> "Number", v |-> text]
EOFTok == Tk("EOF")

\* ParseDiagnostic{message, severity}; span and help do not influence parsing.
Diag(msg) == [message |-> msg, severity |-> "Error"]

\* Parser::new : pos = 0, diags empty.
NewParser == [pos |-> 0, diags |-> <<>>, halt |-> "", out |-> <<>>]

Running(s) == s.halt = ""

\* Parser::current / Parser::peek : the token at pos (+ n), EOF beyond the end.
TokAt(i) == IF i < Len(tokens) THEN tokens[i + 1] ELSE EOFTok
Cur(s) == TokAt(s.pos)
Peek(s, n) == TokAt(s.pos + n)
CurIs(s, kind) == Cur(s).k = kind

\* Parser::advance
Advance(s) == IF Running(s) THEN [s EXCEPT !.pos = @ + 1] ELSE s

\* self.diags.push(ParseDiagnostic { .. })
\* a parser that records no diagnostic
PushDiagDropped(s, msg) == s

PushDiag(s, msg) == IF Running(s) THEN [s EXCEPT !.diags = Append(@, Diag(msg))] ELSE s

Panic(s) == IF Running(s) THEN [s EXCEPT !.halt = "panic"] ELSE s
Hang(s) == IF Running(s) THEN [s EXCEPT !.halt = "hang"] ELSE s
Unmodelled(s) == IF Running(s) THEN [s EXCEPT !.halt = "unmodelled"] ELSE s

\* if self.current() == tok { self.advance(); }
SkipIf(s, kind) == IF CurIs(s, kind) THEN Advance(s) ELSE s

\* the value stack: Top(s, 0) is the value built last, Top(s, 1) the one before
Push(s, v) == IF Running(s) THEN [s EXCEPT !.out = Append(@, v)] ELSE s
Top(s, i) == s.out[Len(s.out) - i]
\* replace the n values on top by v
Reduce(s, n, v) ==
    IF Running(s) THEN [s EXCEPT !.out = Append(SubSeq(@, 1, Len(@) - n), v)] ELSE s
\* vec.push(value): the vector lies under the value
PushOnto(s) == Reduce(s, 2, Append(Top(s, 1), Top(s, 0)))

(***************************************************************************)
(* Parser::expect(expected, sync)                                          *)
(***************************************************************************)
max_skip == 50

RECURSIVE ExpectSkip(_, _, _, _)

ExpectSkipOffByOne(s, expected, sync, skipped) ==
    IF ~(s.pos < Len(tokens) /\ skipped <= max_skip) THEN s
    ELSE IF Cur(s) = expected THEN Advance(s)
    ELSE IF Cur(s) \in sync THEN s
    ELSE IF Cur(s) = EOFTok THEN s
    ELSE ExpectSkip(Advance(s), expected, sync, skipped + 1)

\* the recovery loop of expect: while pos < len && skipped < max_skip
ExpectSkip(s, expected, sync, skipped) ==
    IF ~(s.pos < Len(tokens) /\ skipped < max_skip) THEN s
    ELSE IF Cur(s) = expected THEN Advance(s)
    ELSE IF Cur(s) \in sync THEN s
    ELSE IF Cur(s) = EOFTok THEN s
    ELSE ExpectSkip(Advance(s), expected, sync, skipped + 1)

\* Parser::expect.  The message text plays no part in parsing.
Expect(s, expected, sync) ==
    IF ~Running(s) THEN s
    ELSE IF Cur(s) = expected THEN Advance(s)
    ELSE ExpectSkip(PushDiag(s, "Expected"), expected, sync, 0)

\* expect with the token variants written by name
ExpectK(s, kind, syncKinds) == Expect(s, Tk(kind), {Tk(x) : x \in syncKinds})

(***************************************************************************)
(* Types (Token/storge/ast.rs Type).  One record shape for every variant:  *)
(* t = variant, name = struct / primitive name, of = component types,      *)
(* size = <<>> for None, <<n>> for Some(n), the dimension list of a        *)
(* MultiArray.                                                             *)
(***************************************************************************)
Ty(t, name, of, size) == [t |-> t, name |-> name, of |-> of, size |-> size]
TyVoid == Ty("Void", "", <<>>, <<>>)
TyBool == Ty("Bool", "", <<>>, <<>>)
TyUsize == Ty("Usize", "", <<>>, <<>>)
TyConstStr == Ty("ConstStr", "", <<>>, <<>>)
TyAuto == Ty("Auto", "", <<>>, <<>>)
TyPrim(name) == Ty("Prim", name, <<>>, <<>>)
TyI32 == TyPrim("i32")
TyI64 == TyPrim("i64")
TyStr(len_type) == Ty("Str", "", <<len_type>>, <<>>)
TyStruct(name) == Ty("Struct", name, <<>>, <<>>)
TyArray(element, size) == Ty("Array", "", <<element>>, size)
TyMultiArray(element, dims) == Ty("MultiArray", "", <<element>>, dims)
TyTuple(fields) == Ty("Tuple", "", fields, <<>>)
TyConst(inner) == Ty("Const", "", <<inner>>, <<>>)

\* Parser::parse_type_identifier: the primitive type a TypeIdentifier names.
ParseTypeIdentifier(type_name) == TyPrim(type_name)

\* Parser::is_type_token
IsTypeToken(tok) ==
    tok.k \in {"TypeIdentifier", "Bool", "Void", "Any", "Str", "Ampersand",
               "BitwiseAnd", "TripleDot", "Tilde", "Mut", "LeftParen",
               "LeftBracket", "Identifier", "Option", "Result", "Selfish",
               "Trait", "Caret", "StdStr"}

\* what a match arm of parse_base_type leaves: the type, and whether the arm
\* was left through `return` (which skips the const wrapping at the end)
Arm(s, ty, ret) == Push(s, [ty |-> ty, ret |-> ret])
SetArm(s, ty, ret) == Reduce(s, 1, [ty |-> ty, ret |-> ret])

RECURSIVE ParseType(_), ParseBaseType(_), BaseTypeArm(_, _), TypeIdDims(_, _, _),
          TupleTypes(_), ArraySuffix(_), BaseTypeBracket(_), BaseTypeParen(_),
          BaseTypeStr(_, _)

\* parse_base_type, arm Token::TypeIdentifier: the `[N]` dimension loop
TypeIdDims(s, base, dims) ==
    IF Running(s) /\ CurIs(s, "LeftBracket")
    THEN LET s1 == Advance(s)
         IN  IF CurIs(s1, "Number")
             THEN TypeIdDims(ExpectK(Advance(s1), "RightBracket", {"LeftBracket"}),
                             base, Append(dims, Cur(s1).v))
             ELSE Arm(s1, TyVoid, TRUE)
    ELSE Arm(s, IF dims # <<>> THEN TyMultiArray(base, dims) ELSE base, FALSE)

\* parse_base_type, arm Token::LeftBracket, after let elem_type = self.parse_type()
BracketClose(s) ==
    LET s3 == SkipIf(s, "Semicolon")
    IN  IF ~Running(s) THEN s
        ELSE IF CurIs(s, "Semicolon") /\ CurIs(s3, "Number")
        THEN SetArm(ExpectK(Advance(s3), "RightBracket", {"Semicolon", "End"}),
                    TyArray(Top(s, 0), <<Cur(s3).v>>), TRUE)
        ELSE SetArm(ExpectK(s3, "RightBracket", {"Semicolon", "End"}),
                    TyArray(Top(s, 0), <<>>), FALSE)

\* parse_base_type, arm Token::LeftBracket
BaseTypeBracket(s1) ==
    LET s2 == Advance(s1)
    IN  IF Cur(s2).k \in {"RightBracket", "EOF"}
        THEN Arm(ExpectK(s2, "RightBracket", {"Semicolon", "End"}),
                 TyArray(TyVoid, <<>>), TRUE)
        ELSE BracketClose(ParseType(s2))

\* parse_base_type, arm Token::Identifier
BaseTypeIdentifier(s1) ==
    LET type_name == Cur(s1).v
        s2 == Advance(s1)
        s3 == Advance(s2)
    IN  IF CurIs(s2, "LeftBracket")
        THEN IF CurIs(s3, "RightBracket")
             THEN Arm(Advance(s3), TyArray(TyStruct(type_name), <<>>), TRUE)
             ELSE IF CurIs(s3, "Number")
             THEN Arm(Expect(Advance(s3), Tk("RightBracket"), {}),
                      TyArray(TyStruct(type_name), <<Cur(s3).v>>), TRUE)
             ELSE Arm(s3, TyStruct(type_name), FALSE)
        ELSE Arm(s2, TyStruct(type_name), FALSE)

\* parse_base_type, arm Token::Str, after let len_type = self.parse_type()
StrLenClose(s) ==
    IF ~Running(s) THEN s
    ELSE SetArm(ExpectK(s, "RightParen", {"Comma", "BitwiseOr"}), TyStr(Top(s, 0)), FALSE)

\* parse_base_type, arm Token::Str
BaseTypeStr(s1, is_const) ==
    LET s2 == Advance(s1)
    IN  IF CurIs(s2, "LeftParen") THEN StrLenClose(ParseType(Advance(s2)))
        ELSE Arm(s2, IF is_const THEN TyConstStr ELSE TyStr(TyI64), FALSE)

\* parse_base_type, arm Token::LeftParen: while self.current() == Token::Comma
TupleTypes(s) ==
    IF Running(s) /\ CurIs(s, "Comma")
    THEN IF CurIs(Advance(s), "RightParen") THEN Advance(s)
         ELSE TupleTypes(PushOnto(ParseType(Advance(s))))
    ELSE s

\* parse_base_type, arm Token::LeftParen, the tuple branch after its loop
TupleClose(s) ==
    LET s3 == ExpectK(s, "RightParen", {"Comma", "BitwiseOr"})
        s4 == Advance(s3)
    IN  IF ~Running(s) THEN s
        ELSE IF CurIs(s3, "LeftBracket") /\ CurIs(s4, "Number")
        THEN SetArm(ExpectK(Advance(s4), "RightBracket", {"Comma"}),
                    TyArray(TyTuple(Top(s, 0)), <<Cur(s4).v>>), TRUE)
        ELSE IF CurIs(s3, "LeftBracket") /\ CurIs(s4, "RightBracket")
        THEN SetArm(Advance(s4), TyArray(TyTuple(Top(s, 0)), <<>>), TRUE)
        ELSE SetArm(IF CurIs(s3, "LeftBracket") THEN s4 ELSE s3,
                    TyTuple(Top(s, 0)), FALSE)

\* the type parsed after `(T)`: it replaces T (the vector `types` is dropped)
ParenElement(s, size, ret) ==
    IF ~Running(s) THEN s
    ELSE Reduce(s, 2, [ty |-> IF ret THEN TyArray(Top(s, 0), size) ELSE Top(s, 0),
                       ret |-> ret])

\* parse_base_type, arm Token::LeftParen, the last branch (neither `)` nor `,`
\* nor `|` follows the first type)
ParenSingle(s) ==
    LET s3 == ExpectK(s, "RightParen", {"Comma", "BitwiseOr"})
        s4 == Advance(s3)
    IN  IF CurIs(s3, "LeftBracket") /\ CurIs(s4, "Number")
        THEN ParenElement(ParseType(ExpectK(Advance(s4), "RightBracket", {"Comma"})),
                          <<Cur(s4).v>>, TRUE)
        ELSE IF CurIs(s3, "LeftBracket") /\ CurIs(s4, "RightBracket")
        THEN ParenElement(ParseType(Advance(s4)), <<>>, TRUE)
        ELSE ParenElement(ParseType(IF CurIs(s3, "LeftBracket") THEN s4 ELSE s3),
                          <<>>, FALSE)

\* parse_base_type, arm Token::LeftParen, after let mut types = vec![parse_type()]
ParenFirst(s) ==
    IF ~Running(s) THEN s
    ELSE IF CurIs(s, "RightParen") THEN SetArm(Advance(s), TyTuple(<<>>), TRUE)
    ELSE IF CurIs(s, "Comma") THEN TupleClose(TupleTypes(Reduce(s, 1, <<Top(s, 0)>>)))
    ELSE IF Cur(s).k \in {"BitwiseOr", "Or"} THEN Unmodelled(s)
    ELSE ParenSingle(s)

\* parse_base_type, arm Token::LeftParen
BaseTypeParen(s1) == ParenFirst(ParseType(Advance(s1)))

\* parse_base_type: match current
BaseTypeArm(s1, is_const) ==
    CASE CurIs(s1, "LeftBracket") -> BaseTypeBracket(s1)
      [] CurIs(s1, "TypeIdentifier") ->
             TypeIdDims(Advance(s1), ParseTypeIdentifier(Cur(s1).v), <<>>)
      [] CurIs(s1, "Identifier") -> BaseTypeIdentifier(s1)
      [] CurIs(s1, "Bool") -> Arm(Advance(s1), TyBool, FALSE)
      [] CurIs(s1, "Void") -> Arm(Advance(s1), TyVoid, FALSE)
      [] CurIs(s1, "Usize") -> Arm(Advance(s1), TyUsize, FALSE)
      [] CurIs(s1, "Str") -> BaseTypeStr(s1, is_const)
      [] CurIs(s1, "LeftParen") -> BaseTypeParen(s1)
      [] Cur(s1).k \in {"Selfish", "Trait", "Option", "Result", "Caret", "TripleDot",
                        "Any", "Tilde", "Ampersand", "StdStr", "BitwiseAnd"} ->
             Unmodelled(s1)
      [] OTHER -> Arm(Advance(s1), TyVoid, FALSE)

\* parse_base_type, its end: if is_const && !matches!(base_type, Type::ConstStr)
BaseTypeFinish(s, is_const) ==
    IF ~Running(s) THEN s
    ELSE Reduce(s, 1, IF ~Top(s, 0).ret /\ is_const /\ Top(s, 0).ty # TyConstStr
                      THEN TyConst(Top(s, 0).ty)
                      ELSE Top(s, 0).ty)

\* Parser::parse_base_type
ParseBaseType(s0) ==
    IF ~Running(s0) THEN s0
    ELSE BaseTypeFinish(BaseTypeArm(SkipIf(s0, "Const"), CurIs(s0, "Const")),
                        CurIs(s0, "Const"))

\* parse_type: while self.current() == Token::LeftBracket
ArraySuffix(s) ==
    IF Running(s) /\ CurIs(s, "LeftBracket")
    THEN LET s1 == Advance(s)
         IN  IF CurIs(s1, "RightBracket")
             THEN ArraySuffix(Reduce(Advance(s1), 1, TyArray(Top(s, 0), <<>>)))
             ELSE IF CurIs(s1, "Number")
             THEN ArraySuffix(Reduce(ExpectK(Advance(s1), "RightBracket", {"Comma", "End"}),
                                     1, TyArray(Top(s, 0), <<Cur(s1).v>>)))
             ELSE s1
    ELSE s

\* parse_type, the union / intersection loop: only its exit is modelled
TypeUnion(s) ==
    IF Cur(s).k \in {"BitwiseOr", "Or", "BitwiseAnd", "And"} THEN Unmodelled(s) ELSE s

\* Parser::parse_type
ParseType(s) ==
    IF ~Running(s) THEN s
    ELSE ArraySuffix(TypeUnion(ParseBaseType(s)))

(***************************************************************************)
(* Expressions (Token/storge/expr.rs Expr).  One record shape:             *)
(*   tag    the variant                                                    *)
(*   name   Var / Call / CallNamed / StaticMethodCall name, BinOp operator, *)
(*          String / Number text                                           *)
(*   field  method or field name                                           *)
(*   recv   <<receiver>> of MethodCall / MemberAccess / Index, else <<>>   *)
(*   args   arguments, elements, operands, indices; for CallNamed the      *)
(*          pairs <<name, expr>>                                           *)
(***************************************************************************)
Ex(tag, name, field, recv, args) ==
    [tag |-> tag, name |-> name, field |-> field, recv |-> recv, args |-> args]
ExVar(name) == Ex("Var", name, "", <<>>, <<>>)
ExCall(name, args) == Ex("Call", name, "", <<>>, args)
ExStaticMethodCall(ty, method, args) == Ex("StaticMethodCall", ty, method, <<>>, args)
ExMethodCall(obj, method, args) == Ex("MethodCall", "", method, <<obj>>, args)
ExMemberAccess(obj, field) == Ex("MemberAccess", "", field, <<obj>>, <<>>)
ExNumber(text) == Ex("Number", text, "", <<>>, <<>>)
ExTuple(elements) == Ex("Tuple", "", "", <<>>, elements)
ExIndex(obj, indices) == Ex("Index", "", "", <<obj>>, indices)
ExBinOp(op, left, right) == Ex("BinOp", op, "", <<>>, <<left, right>>)

\* the identifiers of the modelled streams whose first character is upper case
UpperCaseNames == {"A", "B", "M", "X"}
\* var_name.chars().next().unwrap().is_uppercase(); unwrap() panics on ""
FirstCharIsNone(name) == name = ""
FirstCharIsUppercase(name) == name \in UpperCaseNames

RECURSIVE ParseExpr(_), ParseUnary(_), ParsePrimary(_), ParsePost(_),
          ParseFactorLoop(_), ArgsLoop(_, _, _), NamedArgsLoop(_), TupleElements(_),
          PrimaryIdentifier(_), PrimaryParen(_)

\* expect(close, [Semicolon, End]) after an argument / element loop, then the
\* expression built from the vector the loop filled
CloseList(s, close, tag, name, field) ==
    IF ~Running(s) THEN s
    ELSE Reduce(ExpectK(s, close, {"Semicolon", "End"}), 1,
                Ex(tag, name, field, <<>>, Top(s, 0)))

\* while !matches!(self.current(), close | EOF) { args.push(self.parse_expr());
\*   if self.current() == Comma { self.advance(); } [else { break; }] }
ArgsLoop(s, close, breaks) ==
    IF ~Running(s) \/ Cur(s).k \in {close, "EOF"} THEN s
    ELSE LET e == PushOnto(ParseExpr(s))
         IN  IF CurIs(e, "Comma") THEN ArgsLoop(Advance(e), close, breaks)
             ELSE IF breaks THEN e
             ELSE ArgsLoop(e, close, breaks)

\* named_args.push((arg_name, arg_expr))
PushNamed(s, arg_name) ==
    IF ~Running(s) THEN s
    ELSE Reduce(s, 2, Append(Top(s, 1), <<arg_name, Top(s, 0)>>))

\* parse_primary, the named-argument loop of a call f(a = 1, ...).  An
\* iteration whose current token is no Identifier executes no statement, so
\* the loop repeats in the same state for ever.
NamedArgsLoop(s) ==
    IF ~Running(s) \/ Cur(s).k \in {"RightParen", "EOF"} THEN s
    ELSE IF CurIs(s, "Identifier")
    THEN NamedArgsLoop(SkipIf(
             PushNamed(ParseExpr(ExpectK(Advance(s), "Equals", {"Comma", "RightParen"})),
                       Cur(s).v),
             "Comma"))
    ELSE Hang(s)

\* parse_primary, arm Token::Identifier, the tail `if var_name...is_uppercase()`
PrimaryBareName(s, var_name) ==
    IF FirstCharIsNone(var_name) THEN Panic(s)
    ELSE IF FirstCharIsUppercase(var_name) THEN Push(s, ExCall(var_name, <<>>))
    ELSE Push(s, ExVar(var_name))

\* parse_primary, arm Token::Identifier, name.method(args): after the loop
MethodClose(s, var_name, method) ==
    LET s4 == ExpectK(s, "RightParen", {"Semicolon", "End"})
    IN  IF ~Running(s4) THEN s4
        ELSE IF FirstCharIsNone(var_name) THEN Panic(s4)
        ELSE IF FirstCharIsUppercase(var_name)
        THEN Reduce(s4, 1, ExStaticMethodCall(var_name, method, Top(s, 0)))
        ELSE Reduce(s4, 1, ExMethodCall(ExVar(var_name), method, Top(s, 0)))

\* parse_primary, arm Token::Identifier (type_aliases is empty: no modelled
\* stream holds a `type` token)
PrimaryIdentifier(s) ==
    LET var_name == Cur(s).v
        s1 == Advance(s)
        s2 == Advance(s1)
        s3 == Advance(s2)
    IN  IF CurIs(s1, "Dot")
        THEN IF CurIs(s2, "Identifier")
             THEN IF CurIs(s3, "LeftParen")
                  THEN MethodClose(ArgsLoop(Push(Advance(s3), <<>>), "RightParen", TRUE),
                                   var_name, Cur(s2).v)
                  ELSE Push(s3, ExMemberAccess(ExVar(var_name), Cur(s2).v))
             ELSE PrimaryBareName(s2, var_name)
        ELSE IF CurIs(s1, "LeftParen")
        THEN IF CurIs(s2, "Identifier") /\ Peek(s2, 1) = Tk("Equals")
             THEN CloseList(NamedArgsLoop(Push(s2, <<>>)), "RightParen",
                            "CallNamed", var_name, "")
             ELSE CloseList(ArgsLoop(Push(s2, <<>>), "RightParen", FALSE), "RightParen",
                            "Call", var_name, "")
        ELSE PrimaryBareName(s1, var_name)

\* parse_primary, arm Token::LeftParen: while self.current() == Token::Comma
TupleElements(s) ==
    IF Running(s) /\ CurIs(s, "Comma")
    THEN IF CurIs(Advance(s), "RightParen") THEN Advance(s)
         ELSE TupleElements(PushOnto(ParseExpr(Advance(s))))
    ELSE s

\* parse_primary, arm Token::LeftParen, after let first_expr = self.parse_expr()
ParenClose(s) ==
    IF ~Running(s) THEN s
    ELSE IF CurIs(s, "Comma")
    THEN CloseList(TupleElements(Reduce(s, 1, <<Top(s, 0)>>)), "RightParen",
                   "Tuple", "", "")
    ELSE ExpectK(s, "RightParen", {"Semicolon", "End"})

\* parse_primary, arm Token::LeftParen
PrimaryParen(s) ==
    IF CurIs(Advance(s), "RightParen") THEN Push(Advance(Advance(s)), ExTuple(<<>>))
    ELSE ParenClose(ParseExpr(Advance(s)))

\* Parser::parse_primary
ParsePrimary(s) ==
    IF ~Running(s) THEN s
    ELSE CASE CurIs(s, "Identifier") -> PrimaryIdentifier(s)
           [] CurIs(s, "Number") -> Push(Advance(s), ExNumber(Cur(s).v))
           [] CurIs(s, "LeftParen") -> PrimaryParen(s)
           [] CurIs(s, "LeftBracket") ->
                  CloseList(ArgsLoop(Push(Advance(s), <<>>), "RightBracket", FALSE),
                            "RightBracket", "Array", "", "")
           [] Cur(s).k \in {"Plan", "String", "Selfish", "OneOf", "OffsetOf", "AlignOf",
                            "TypeOf", "None", "Char", "Float", "HexNumber",
                            "BinaryNumber", "OctalNumber", "True", "False", "Some",
                            "Ok", "Err", "LeftBrace"} -> Unmodelled(s)
           [] OTHER -> Push(Advance(s), ExNumber("0"))

\* parse_post, arm Token::Dot, expr.method(args): after the loop
PostMethodClose(s, method) ==
    IF ~Running(s) THEN s
    ELSE Reduce(ExpectK(s, "RightParen", {"Semicolon", "End"}), 2,
                ExMethodCall(Top(s, 1), method, Top(s, 0)))

\* parse_post, arm Token::LeftBracket, after let start = self.parse_expr()
IndexClose(s) ==
    IF ~Running(s) THEN s
    ELSE IF CurIs(s, "DoubleDot") THEN Unmodelled(s)
    ELSE Reduce(ExpectK(s, "RightBracket", {"Dot", "LeftBracket"}), 2,
                ExIndex(Top(s, 1), <<Top(s, 0)>>))

\* Parser::parse_post
ParsePost(s) ==
    IF ~Running(s) THEN s
    ELSE CASE CurIs(s, "Dot") ->
                  LET s1 == Advance(s)
                      s2 == Advance(s1)
                  IN  IF CurIs(s1, "Identifier")
                      THEN IF CurIs(s2, "LeftParen")
                           THEN ParsePost(PostMethodClose(
                                    ArgsLoop(Push(Advance(s2), <<>>), "RightParen", FALSE),
                                    Cur(s1).v))
                           ELSE ParsePost(Reduce(s2, 1,
                                                 ExMemberAccess(Top(s, 0), Cur(s1).v)))
                      ELSE ParsePost(s1)
           [] CurIs(s, "LeftBracket") -> ParsePost(IndexClose(ParseExpr(Advance(s))))
           [] CurIs(s, "LeftBrace") -> Unmodelled(s)
           [] OTHER -> s

\* Parser::parse_unary
ParseUnary(s) ==
    IF Cur(s).k \in {"Not", "Ampersand", "Minus"} THEN Unmodelled(s)
    ELSE ParsePost(ParsePrimary(s))

\* node = Expr::BinOp(op, node, right)
BinOpClose(s, op) ==
    IF ~Running(s) THEN s ELSE Reduce(s, 2, ExBinOp(op, Top(s, 1), Top(s, 0)))

\* Parser::parse_factor: while matches!(self.current(), Star | Slash | Percent)
ParseFactorLoop(s) ==
    IF Running(s) /\ CurIs(s, "Star")
    THEN ParseFactorLoop(BinOpClose(ParseUnary(Advance(s)), "*"))
    ELSE s

\* parse_logic_or .. parse_term loop on operator tokens; none of these loops is
\* modelled, each level returns what parse_factor returns
OtherOperators(s) ==
    IF Cur(s).k \in {"Or", "And", "Pipe", "Caret", "Ampersand", "EqualsEquals",
                     "NotEquals", "Less", "LessEquals", "Greater", "GreaterEquals",
                     "LeftShift", "RightShift", "Plus", "Minus", "Slash", "Percent"}
    THEN Unmodelled(s)
    ELSE s

\* Parser::parse_expr
ParseExpr(s) ==
    IF ~Running(s) THEN s
    ELSE OtherOperators(ParseFactorLoop(ParseUnary(s)))

(***************************************************************************)
(* Statements (Token/storge/stmt.rs Stmt) and functions.  One record shape *)
(* for the statements:                                                     *)
(*   tag    the variant                                                    *)
(*   name   declared / assigned / called / loop variable / module name,    *)
(*          the field of a MemberAssign                                    *)
(*   ty     the type of a TypedDeclaration                                 *)
(*   exprs  the expressions of the statement, in source order              *)
(*          (IndexAssign: object, indices, value; MemberAssign: object,    *)
(*          value; Call: the arguments)                                    *)
(*   body   the nested block (For, ModuleDef)                              *)
(*   fn     <<function>> of a Stmt::Function, <<op>> of a CompoundAssign,  *)
(*          the (name, alias) pairs of a ModuleExports, the else block of  *)
(*          an If / IfLet as an Option: <<>> is None, <<stmts>> is Some    *)
(*   flag   is_mutable / is_public                                         *)
(***************************************************************************)
St(tag, name, ty, exprs, body, fn, flag) ==
    [tag |-> tag, name |-> name, ty |-> ty, exprs |-> exprs, body |-> body,
     fn |-> fn, flag |-> flag]
StTypedDeclaration(name, ty, value, is_mutable) ==
    St("TypedDeclaration", name, ty, <<value>>, <<>>, <<>>, is_mutable)
StFor(var_name, iter, body) == St("For", var_name, TyVoid, <<iter>>, body, <<>>, FALSE)
StCall(name, args) == St("Call", name, TyVoid, args, <<>>, <<>>, FALSE)
StExpr(expr) == St("Expr", "", TyVoid, <<expr>>, <<>>, <<>>, FALSE)
StAssign(name, value) == St("Assign", name, TyVoid, <<value>>, <<>>, <<>>, FALSE)
StIndexAssign(obj, indices, value) ==
    St("IndexAssign", "", TyVoid, <<obj>> \o indices \o <<value>>, <<>>, <<>>, FALSE)
StMemberAssign(obj, field, value) ==
    St("MemberAssign", field, TyVoid, <<obj, value>>, <<>>, <<>>, FALSE)
StFunction(f) == St("Function", f.name, TyVoid, <<>>, <<>>, <<f>>, f.is_public)
StModuleDef(name, body, is_public) ==
    St("ModuleDef", name, TyVoid, <<>>, body, <<>>, is_public)
StCompoundAssign(name, op, value) ==
    St("CompoundAssign", name, TyVoid, <<value>>, <<>>, <<op>>, FALSE)
ExNone == Ex("None", "", "", <<>>, <<>>)
StIf(cond, then_body, else_body) ==
    St("If", "", TyVoid, <<cond>>, then_body, else_body, FALSE)
StIfLet(pattern, value, then_block, else_block) ==
    St("IfLet", "", TyVoid, <<pattern, value>>, then_block, else_block, FALSE)

Function(name, params, return_type, body, is_public, attributes) ==
    [name |-> name, params |-> params, return_type |-> return_type, body |-> body,
     is_public |-> is_public, attributes |-> attributes]

\* if let Token::Identifier(name) = self.current() { self.advance(); name }
\* else { self.advance(); "error" }
NameOrError(s) ==
    Push(Advance(s), IF CurIs(s, "Identifier") THEN Cur(s).v ELSE "error")

\* Parser::parse_compound_op: Some(op) on a compound-assignment token
\* (+= -= *= /= %=), None otherwise; advances nothing.
ParseCompoundOp(s) ==
    IF Cur(s).k \in {"PlusEquals", "MinusEquals", "StarEquals", "SlashEquals",
                     "PercentEquals"}
    THEN <<Cur(s).k>> ELSE <<>>

\* parse_attribute: let name = ...
AttributeName(s) ==
    IF Cur(s).k \in {"Identifier", "TypeIdentifier"} THEN Push(Advance(s), Cur(s).v)
    ELSE Push(s, "error")

\* parse_attribute: let param = ...; (name, param)
AttributeParam(s) ==
    IF ~Running(s) THEN s
    ELSE IF CurIs(s, "LeftParen")
    THEN IF CurIs(Advance(s), "String")
         THEN Reduce(ExpectK(Advance(Advance(s)), "RightParen", {"Extern"}), 1,
                     <<Top(s, 0), <<Cur(Advance(s)).v>> >>)
         ELSE Reduce(ExpectK(Advance(s), "RightParen", {"Extern"}), 1,
                     <<Top(s, 0), <<>> >>)
    ELSE IF CurIs(s, "RightBracket")
    THEN Reduce(ExpectK(s, "RightBracket", {"Func"}), 1, <<Top(s, 0), <<>> >>)
    ELSE Reduce(s, 1, <<Top(s, 0), <<>> >>)

\* Parser::parse_attribute: the pair (name, param), param <<>> for None
ParseAttribute(s) ==
    IF CurIs(s, "Hash")
    THEN AttributeParam(AttributeName(
             ExpectK(ExpectK(s, "Hash", {"LeftBracket"}), "LeftBracket", {"RightBracket"})))
    ELSE IF CurIs(s, "At") THEN Unmodelled(s)
    ELSE AttributeParam(AttributeName(s))

\* format!("{}({})", name, p): the strings of the modelled streams
FormatAttr(name, p) ==
    CASE name = "A" /\ p = "arg" -> "A(arg)"
      [] name = "B" /\ p = "arg" -> "B(arg)"
      [] OTHER -> "other(...)"

\* attributes.push(if let Some(p) = param { format!(..) } else { name })
PushAttribute(s) ==
    IF ~Running(s) THEN s
    ELSE Reduce(s, 2, Append(Top(s, 1),
                             IF Top(s, 0)[2] # <<>>
                             THEN FormatAttr(Top(s, 0)[1], Top(s, 0)[2][1])
                             ELSE Top(s, 0)[1]))

RECURSIVE AttributeLoop(_)
\* while self.current() == Token::Hash { attributes.push(..parse_attribute()..) }
AttributeLoop(s) ==
    IF Running(s) /\ CurIs(s, "Hash") THEN AttributeLoop(PushAttribute(ParseAttribute(s)))
    ELSE s

RECURSIVE ParseStmt(_), BlockLoop(_, _), ParamLoop(_),
          ParseFunctionWithVisibility(_, _, _, _), ParseModule(_, _),
          StmtFor(_), StmtHash(_), StmtPub(_), StmtIf(_)

\* while !matches!(self.current(), closers | EOF) { body.push(self.parse_stmt());
\*   if self.current() == Token::Semicolon { self.advance(); } }
BlockLoop(s, closers) ==
    IF ~Running(s) \/ Cur(s).k \in closers \cup {"EOF"} THEN s
    ELSE BlockLoop(SkipIf(PushOnto(ParseStmt(s)), "Semicolon"), closers)

\* params.push((pname, ptype, modifier))
PushParam(s) ==
    IF ~Running(s) THEN s
    ELSE Reduce(s, 3, Append(Top(s, 2), [name |-> Top(s, 1), ty |-> Top(s, 0),
                                         modifier |-> "Immutable"]))

\* parse_function_with_visibility: while self.current() != Token::RightParen.
\* The guard does not test for EOF.  Once pos >= tokens.len() every later
\* current() is EOF (pos never decreases), each iteration pushes a parameter
\* and a diagnostic, and the guard stays true for ever.
ParamLoop(s) ==
    IF ~Running(s) \/ CurIs(s, "RightParen") THEN s
    ELSE IF s.pos >= Len(tokens) THEN Hang(s)
    ELSE IF Cur(s).k \in {"Mutable", "Reference"} THEN Unmodelled(s)
    ELSE ParamLoop(SkipIf(
             PushParam(ParseType(ExpectK(NameOrError(s), "Colon", {"Comma", "RightParen"}))),
             "Comma"))

\* parse_function_with_visibility: let is_self_param = ...; only `false`
SelfParam(s) ==
    IF Cur(s).k \in {"Selfish", "Mutable", "Mut", "Reference", "Ampersand"}
    THEN Unmodelled(s) ELSE s

\* parse_function_with_visibility: let return_type = ... (name lies under params)
ReturnType(s, is_module) ==
    IF ~Running(s) THEN s
    ELSE IF Cur(s).k \in {"Arrow", "Colon"}
    THEN IF IsTypeToken(Cur(Advance(s))) THEN ParseType(Advance(s))
         ELSE Push(Advance(s), TyVoid)
    ELSE IF Top(s, 1) = "main" /\ ~is_module THEN Push(s, TyI32)
    ELSE Push(s, TyVoid)

\* parse_function_with_visibility: self.expect(Token::End, vec![]); Function {..}
FunctionClose(s, is_public, attributes) ==
    IF ~Running(s) THEN s
    ELSE Reduce(Expect(s, Tk("End"), {}), 4,
                Function(Top(s, 3), Top(s, 2), Top(s, 1), Top(s, 0), is_public,
                         attributes))

\* Parser::parse_function_with_visibility
ParseFunctionWithVisibility(s, is_module, is_public, attributes) ==
    IF ~Running(s) THEN s
    ELSE FunctionClose(
             BlockLoop(
                 Push(SkipIf(
                          ReturnType(
                              ExpectK(
                                  ParamLoop(Push(SelfParam(
                                      ExpectK(NameOrError(ExpectK(s, "Func", {"Colon", "End"})),
                                              "LeftParen", {"RightParen", "Arrow", "Colon"})),
                                      <<>>)),
                                  "RightParen", {"Colon"}),
                              is_module),
                          "Colon"),
                      <<>>),
                 {"End"}),
             is_public, attributes)

\* Stmt::Function(self.parse_function_with_visibility(..))
WrapFunction(s) == IF ~Running(s) THEN s ELSE Reduce(s, 1, StFunction(Top(s, 0)))

\* parse_module: self.expect(Token::RightBrace, ..); Stmt::ModuleDef {..}
ModuleClose(s, is_public) ==
    IF ~Running(s) THEN s
    ELSE Reduce(ExpectK(s, "RightBrace", {"Semicolon"}), 2,
                StModuleDef(Top(s, 1), Top(s, 0), is_public))

\* Parser::parse_module
ParseModule(s, is_public) ==
    IF ~Running(s) THEN s
    ELSE ModuleClose(
             BlockLoop(Push(ExpectK(NameOrError(Expect(s, Tk("Mod"), {Id("")})),
                                    "LeftBrace", {"End"}),
                            <<>>),
                       {"RightBrace"}),
             is_public)

\* Stmt::TypedDeclaration { name, ty, value, is_mutable: false }
DeclarationClose(s, name) ==
    IF ~Running(s) THEN s
    ELSE Reduce(s, 2, StTypedDeclaration(name, Top(s, 1), Top(s, 0), FALSE))

\* parse_stmt, arm Token::Let
StmtLet(s) ==
    LET s1 == Advance(s)
        s2 == Advance(s1)
    IN  IF ~CurIs(s1, "Identifier") THEN Panic(s1)
        ELSE IF CurIs(s2, "Mut") THEN Unmodelled(s2)
        ELSE DeclarationClose(
                 ParseExpr(ExpectK(IF CurIs(s2, "Colon") THEN ParseType(Advance(s2))
                                   ELSE Push(s2, TyAuto),
                                   "Equals", {"Semicolon"})),
                 Cur(s1).v)

\* parse_stmt, arm Token::Identifier(name) if self.peek(1) == Token::Colon
StmtTypedDeclaration(s) ==
    DeclarationClose(
        ParseExpr(ExpectK(ParseType(Advance(Advance(s))), "Equals", {"Semicolon"})),
        Cur(s).v)

\* parse_stmt, arm Token::For: after the body loop
ForClose(s) ==
    IF ~Running(s) THEN s
    ELSE Reduce(SkipIf(s, "End"), 3, StFor(Top(s, 2), Top(s, 1), Top(s, 0)))

\* parse_stmt, arm Token::For
StmtFor(s) ==
    ForClose(BlockLoop(
        Push(ExpectK(ParseExpr(ExpectK(NameOrError(Advance(s)), "In", {"Do", "End"})),
                     "Do", {"End"}),
             <<>>),
        {"End"}))

\* the attribute vector has moved into the function built above it
DropUnder(s) == IF ~Running(s) THEN s ELSE Reduce(s, 2, Top(s, 0))

\* parse_stmt, arm Token::Hash: after the attribute loop
AttributedItem(s) ==
    IF ~Running(s) THEN s
    ELSE IF CurIs(SkipIf(s, "Pub"), "Func")
    THEN WrapFunction(DropUnder(
             ParseFunctionWithVisibility(SkipIf(s, "Pub"), FALSE, CurIs(s, "Pub"),
                                         Top(s, 0))))
    ELSE Reduce(Advance(PushDiag(SkipIf(s, "Pub"), "Expected function after attributes")),
                1, StExpr(ExNone))

\* parse_stmt, arm Token::Hash
StmtHash(s) == AttributedItem(AttributeLoop(Push(s, <<>>)))

\* parse_stmt, arm Token::Pub
StmtPub(s) ==
    LET s1 == Advance(s)
    IN  CASE CurIs(s1, "Mod") -> ParseModule(s1, TRUE)
          [] CurIs(s1, "Func") ->
                 WrapFunction(ParseFunctionWithVisibility(s1, FALSE, TRUE, <<>>))
          [] Cur(s1).k \in {"Struct", "Enum"} -> Unmodelled(s1)
          [] OTHER -> Panic(s1)

\* parse_stmt, arm `_`, after `=`: match expr { .. } on the assigned value
AssignClose(s) ==
    IF ~Running(s) THEN s
    ELSE Reduce(s, 2,
             CASE Top(s, 1).tag = "Var" -> StAssign(Top(s, 1).name, Top(s, 0))
               [] Top(s, 1).tag = "Index" ->
                      StIndexAssign(Top(s, 1).recv[1], Top(s, 1).args, Top(s, 0))
               [] Top(s, 1).tag = "MemberAccess" ->
                      StMemberAssign(Top(s, 1).recv[1], Top(s, 1).field, Top(s, 0))
               [] OTHER -> StExpr(Top(s, 1)))

\* parse_stmt, arm `_`, after `:` on a variable: the optional initialiser
DeclarationValue(s) ==
    IF CurIs(s, "Equals") THEN ParseExpr(Advance(s)) ELSE Push(s, ExNumber("0"))

\* parse_stmt, arm `_`, `name : type [= value]`: the Var lies under the type
VarDeclarationClose(s) ==
    IF ~Running(s) THEN s
    ELSE Reduce(s, 3, StTypedDeclaration(Top(s, 2).name, Top(s, 1), Top(s, 0), FALSE))

\* parse_stmt, arm `_`, Stmt::CompoundAssign(name, op, self.parse_expr())
CompoundClose(s, op) ==
    IF ~Running(s) THEN s
    ELSE Reduce(s, 2, StCompoundAssign(Top(s, 1).name, op, Top(s, 0)))

\* parse_stmt, arm `_`, after let expr = self.parse_expr()
StmtExpressionRest(s) ==
    IF ~Running(s) THEN s
    ELSE IF CurIs(s, "Equals") THEN AssignClose(ParseExpr(Advance(s)))
    ELSE IF CurIs(s, "Colon")
    THEN IF Top(s, 0).tag = "Var"
         THEN VarDeclarationClose(DeclarationValue(ParseType(Advance(s))))
         ELSE Reduce(s, 1, StExpr(Top(s, 0)))
    ELSE IF ParseCompoundOp(s) # <<>>
    THEN IF Top(s, 0).tag = "Var"
         THEN CompoundClose(ParseExpr(Advance(s)), ParseCompoundOp(s)[1])
         ELSE Reduce(Advance(s), 1, StExpr(Top(s, 0)))
    ELSE IF Top(s, 0).tag = "Call"
    THEN Reduce(s, 1, StCall(Top(s, 0).name, Top(s, 0).args))
    ELSE Reduce(s, 1, StExpr(Top(s, 0)))

\* parse_stmt, arm Token::If: let else_body = if self.current() == Token::Else
\* { advance; expect(Colon, [End]); loop until End | EOF; Some(stmts) } else { None }
ElseBody(s) ==
    LET s1 == BlockLoop(Push(ExpectK(Advance(s), "Colon", {"End"}), <<>>), {"End"})
    IN  IF ~Running(s) THEN s
        ELSE IF CurIs(s, "Else")
        THEN IF Running(s1) THEN Reduce(s1, 1, <<Top(s1, 0)>>) ELSE s1
        ELSE Push(s, <<>>)

\* parse_stmt, arm Token::If: if matches!(self.current(), End | Comma) { advance }
IfEnd(s) == IF Running(s) /\ Cur(s).k \in {"End", "Comma"} THEN Advance(s) ELSE s

\* parse_stmt, arm Token::If, the branch after `=`: value, optional `then`, the
\* then block up to Else | End | EOF, THEN the else block, the closing token
IfLetClose(s) ==
    LET s1 == IfEnd(ElseBody(BlockLoop(Push(SkipIf(ParseExpr(Advance(s)), "Then"), <<>>),
                                       {"Else", "End"})))
    IN  IF ~Running(s1) THEN s1
        ELSE Reduce(s1, 4, StIfLet(Top(s1, 3), Top(s1, 2), Top(s1, 1), Top(s1, 0)))

\* parse_stmt, arm Token::If, the branch without `=`: the else block is looked
\* for FIRST (right after the condition), then the optional `then`, the then
\* block up to Else | End | EOF, the closing token
IfClose(s) ==
    LET s1 == IfEnd(BlockLoop(Push(SkipIf(ElseBody(s), "Then"), <<>>), {"Else", "End"}))
    IN  IF ~Running(s1) THEN s1
        ELSE Reduce(s1, 3, StIf(Top(s1, 2), Top(s1, 0), Top(s1, 1)))

\* parse_stmt, arm Token::If
StmtIf(s) ==
    LET s1 == ParseExpr(Advance(s))
    IN  IF ~Running(s1) THEN s1
        ELSE IF CurIs(s1, "Equals") THEN IfLetClose(s1)
        ELSE IfClose(s1)

\* Parser::parse_stmt
ParseStmt(s) ==
    IF ~Running(s) THEN s
    ELSE CASE CurIs(s, "Let") -> StmtLet(s)
           [] CurIs(s, "Identifier") /\ Peek(s, 1) = Tk("Colon") -> StmtTypedDeclaration(s)
           [] CurIs(s, "For") -> StmtFor(s)
           [] CurIs(s, "Hash") -> StmtHash(s)
           [] CurIs(s, "Mod") -> ParseModule(s, FALSE)
           [] CurIs(s, "Func") ->
                  WrapFunction(ParseFunctionWithVisibility(s, FALSE, FALSE, <<>>))
           [] CurIs(s, "Pub") -> StmtPub(s)
           [] CurIs(s, "If") -> StmtIf(s)
           [] Cur(s).k \in {"Unsafe", "Scope", "Create", "Match", "Return", "Break",
                            "Continue", "While", "Mut", "Mutable"} -> Unmodelled(s)
           [] OTHER -> StmtExpressionRest(ParseExpr(s))

(***************************************************************************)
(* Import declarations and the ImportContext                               *)
(***************************************************************************)
LibraryImport(name) == [kind |-> "LibraryImport", name |-> name, from |-> ""]
FileImport(name, from) == [kind |-> "FileImport", name |-> name, from |-> from]
WildcardImport(from) == [kind |-> "WildcardImport", name |-> "", from |-> from]

\* ImportContext::new.  library_imports is a HashSet; symbol_imports a HashMap,
\* kept as its set of (key, value) pairs; module_exports stays empty (only
\* add_module_export, which the parser never calls, fills it).
NewImportContext ==
    [library_imports |-> {}, symbol_imports |-> {}, auto_imported |-> FALSE]

AddCoreImportsFlagOnly(c) ==
    IF ~c.auto_imported THEN [c EXCEPT !.auto_imported = TRUE] ELSE c

\* ImportContext::add_core_imports
AddCoreImports(c) ==
    IF ~c.auto_imported
    THEN [c EXCEPT !.library_imports = @ \cup {"core"}, !.auto_imported = TRUE]
    ELSE c

\* HashMap::insert(key, value)
MapInsert(m, key, value) == {p \in m : p[1] # key} \cup {<<key, value>>}
MapHasKey(m, key) == \E p \in m : p[1] = key

\* build_import_context: the body of `for import in import_decls`
AddImport(c, import) ==
    CASE import.kind = "LibraryImport" ->
             [c EXCEPT !.library_imports = @ \cup {import.name}]
      [] import.kind = "FileImport" ->
             [c EXCEPT !.symbol_imports = MapInsert(@, import.name, import.from)]
      [] import.kind = "WildcardImport" ->
             [c EXCEPT !.library_imports = @ \cup {import.from}]

RECURSIVE AddImports(_, _)
AddImports(c, import_decls) ==
    IF import_decls = <<>> THEN c
    ELSE AddImports(AddImport(c, Head(import_decls)), Tail(import_decls))

\* Parser::build_import_context
BuildImportContext(import_decls) ==
    AddImports(AddCoreImports(NewImportContext), import_decls)

\* ImportContext::is_library_function / is_imported_symbol
IsLibraryFunction(c, name) == name \in c.library_imports
IsImportedSymbol(c, name) == MapHasKey(c.symbol_imports, name)

\* Parser::parse_import
ParseImport(s) ==
    LET f1 == Advance(s)
        wildFirst == CurIs(s, "From") /\ CurIs(f1, "Identifier")
        s1 == IF CurIs(s, "From") THEN f1 ELSE s
        s2 == ExpectK(s1, "Import", {"Semicolon", "From", "Star"})
        w1 == Expect(Advance(s2), Tk("From"), {Id("")})
        starFrom == CurIs(s2, "Star") /\ CurIs(w1, "Identifier")
        s3 == IF CurIs(s2, "Star") THEN w1 ELSE s2
        n1 == Advance(s3)
        n2 == Advance(n1)
    IN  IF wildFirst
        THEN Push(ExpectK(ExpectK(Advance(f1), "Import", {"Star"}), "Star", {"Semicolon"}),
                  WildcardImport(Cur(f1).v))
        ELSE IF starFrom THEN Push(Advance(w1), WildcardImport(Cur(w1).v))
        ELSE IF CurIs(s3, "Identifier")
        THEN IF CurIs(n1, "From")
             THEN IF CurIs(n2, "Identifier")
                  THEN Push(Advance(n2), FileImport(Cur(s3).v, Cur(n2).v))
                  ELSE Push(n2, LibraryImport(Cur(s3).v))
             ELSE Push(n1, LibraryImport(Cur(s3).v))
        ELSE Push(s3, LibraryImport("unknown"))

(***************************************************************************)
(* Undefined-function analysis                                             *)
(***************************************************************************)
UndefinedFunction(name, args_count) == [name |-> name, args_count |-> args_count]

NoteCallNoDedupe(name, nargs, defined, undef) ==
    IF name \notin defined THEN Append(undef, UndefinedFunction(name, nargs))
    ELSE undef

\* if !defined.contains(name) && !undefined.iter().any(|u| u.name == *name)
\*     { undefined.push(..) }
NoteCall(name, nargs, defined, undef) ==
    IF name \notin defined /\ \A i \in 1..Len(undef) : undef[i].name # name
    THEN Append(undef, UndefinedFunction(name, nargs))
    ELSE undef

RECURSIVE ExprCalls(_, _, _, _), ExprsCalls(_, _, _, _), StmtCalls(_, _, _, _)

\* for arg in args { self.expr_calls(arg, ..) }
ExprsCalls(exprs, defined, undef, c) ==
    IF exprs = <<>> THEN undef
    ELSE ExprsCalls(Tail(exprs), defined, ExprCalls(Head(exprs), defined, undef, c), c)

\* Parser::expr_calls (the parser model builds no Expr::ModuleCall and no
\* Expr::UnOp)
ExprCalls(expr, defined, undef, c) ==
    CASE expr.tag = "Call" ->
             IF IsLibraryFunction(c, expr.name) THEN undef
             ELSE ExprsCalls(expr.args, defined,
                             NoteCall(expr.name, Len(expr.args), defined, undef), c)
      [] expr.tag \in {"BinOp", "Tuple", "Array"} ->
             ExprsCalls(expr.args, defined, undef, c)
      [] OTHER -> undef

\* Parser::stmt_calls (the parser model builds no Stmt::ModuleCall and no
\* While / Match / Scope / Unsafe / Return; an IfLet falls under `_`)
StmtCalls(stmts, defined, undef, c) ==
    IF stmts = <<>> THEN undef
    ELSE StmtCalls(Tail(stmts), defined,
             CASE Head(stmts).tag = "Call" ->
                      IF IsLibraryFunction(c, Head(stmts).name) THEN undef
                      ELSE ExprsCalls(Head(stmts).exprs, defined,
                               NoteCall(Head(stmts).name, Len(Head(stmts).exprs),
                                        defined, undef), c)
               [] Head(stmts).tag \in {"Assign", "CompoundAssign"} ->
                      ExprCalls(Head(stmts).exprs[1], defined, undef, c)
               [] Head(stmts).tag = "If" ->
                      LET then_undef ==
                              StmtCalls(Head(stmts).body, defined,
                                        ExprCalls(Head(stmts).exprs[1], defined, undef, c),
                                        c)
                      IN  IF Head(stmts).fn # <<>>
                          THEN StmtCalls(Head(stmts).fn[1], defined, then_undef, c)
                          ELSE then_undef
               [] OTHER -> undef,
             c)

RECURSIVE FunctionsCalls(_, _, _, _)
\* for func in functions { self.stmt_calls(&func.body, ..) }
FunctionsCalls(functions, defined, undef, c) ==
    IF functions = <<>> THEN undef
    ELSE FunctionsCalls(Tail(functions), defined,
                        StmtCalls(Head(functions).body, defined, undef, c), c)

\* the names find_undefined_functions puts into defined_functions
DefinedFunctions(functions, externs) ==
    {functions[i].name : i \in 1..Len(functions)} \cup
    UNION {{externs[i].functions[j].name : j \in 1..Len(externs[i].functions)} :
           i \in 1..Len(externs)}

\* Parser::find_undefined_functions
FindUndefinedFunctions(functions, externs, c) ==
    FunctionsCalls(functions, DefinedFunctions(functions, externs), <<>>, c)

(***************************************************************************)
(* Parser::parse: the top-level forms.  A form leaves on the stack the     *)
(* vector of Parser::parse it pushes to and the value it pushes.           *)
(***************************************************************************)
\* the vectors of Parser::parse that the modelled forms fill
EmptyProgram ==
    [import_decls |-> <<>>, functions |-> <<>>, externs |-> <<>>, imports |-> <<>>,
     modules |-> <<>>]

\* vector.push(value) for the value on top of the stack
PushTo(s, vector) ==
    IF ~Running(s) THEN s ELSE Reduce(s, 1, [vector |-> vector, value |-> <<Top(s, 0)>>])
\* a form that pushes to no vector
PushNothing(s) == Push(s, [vector |-> "none", value |-> <<>>])

ExternFunction(name, params, return_type) ==
    [name |-> name, params |-> params, return_type |-> return_type]

RECURSIVE ExternParamLoop(_), ExternBlockLoop(_)

\* params.push((pname, ptype))
PushExternParam(s) ==
    IF ~Running(s) THEN s
    ELSE Reduce(s, 3, Append(Top(s, 2), [name |-> Top(s, 1), ty |-> Top(s, 0)]))

\* extern declarations: while current != RightParen && current != EOF
ExternParamLoop(s) ==
    IF ~Running(s) \/ Cur(s).k \in {"RightParen", "EOF"} THEN s
    ELSE IF CurIs(s, "TripleDot") THEN Unmodelled(s)
    ELSE ExternParamLoop(SkipIf(
             PushExternParam(ParseType(ExpectK(NameOrError(s), "Colon",
                                               {"Comma", "RightParen"}))),
             "Comma"))

\* extern declarations: let return_type = ...
ExternReturnType(s) ==
    IF ~Running(s) THEN s
    ELSE IF Cur(s).k \in {"Arrow", "Colon"}
    THEN IF IsTypeToken(Cur(Advance(s))) THEN ParseType(Advance(s))
         ELSE Push(Advance(s), TyVoid)
    ELSE Push(s, TyVoid)

\* ExternFunction { name, params, return_type, is_public: false }
ExternFunctionClose(s) ==
    IF ~Running(s) THEN s
    ELSE Reduce(s, 3, ExternFunction(Top(s, 2), Top(s, 1), Top(s, 0)))

\* name ( params ) [: type] of an extern function
ExternSignature(s, syncOpen, syncClose) ==
    ExternFunctionClose(ExternReturnType(
        ExpectK(ExternParamLoop(Push(ExpectK(NameOrError(s), "LeftParen", syncOpen), <<>>)),
                "RightParen", syncClose)))

\* Token::Extern, block form: while !matches!(self.current(), End | EOF)
ExternBlockLoop(s) ==
    IF ~Running(s) \/ Cur(s).k \in {"End", "EOF"} THEN s
    ELSE IF CurIs(s, "Func")
    THEN ExternBlockLoop(SkipIf(
             PushOnto(ExternSignature(Advance(s), {"RightParen", "Colon"},
                                      {"Colon", "Arrow"})),
             "Semicolon"))
    ELSE ExternBlockLoop(SkipIf(Advance(s), "Semicolon"))

\* externs.push(ExternDecl::Block { abi, functions }) / ExternDecl::Single
ExternClose(s, closer, kind, abi) ==
    IF ~Running(s) THEN s
    ELSE Reduce(SkipIf(s, closer), 1,
                [vector |-> "externs",
                 value |-> <<[kind |-> kind, abi |-> abi,
                              functions |-> IF kind = "Block" THEN Top(s, 0)
                                            ELSE <<Top(s, 0)>>]>>])

\* Parser::parse, arm Token::Extern
TopExtern(s) ==
    LET s1 == Advance(s)
        abi == IF CurIs(s1, "String") THEN Cur(s1).v ELSE "C"
        s2 == SkipIf(s1, "String")
    IN  IF CurIs(s2, "Colon")
        THEN ExternClose(ExternBlockLoop(Push(Advance(s2), <<>>)), "End", "Block", abi)
        ELSE ExternClose(ExternSignature(s2, {"RightParen"},
                                         {"Colon", "Arrow", "Semicolon"}),
                         "Semicolon", "Single", abi)

\* Parser::parse, arm Token::Hash: after the attribute loop
TopAttributedItem(s) ==
    IF ~Running(s) THEN s
    ELSE IF CurIs(SkipIf(s, "Pub"), "Func")
    THEN PushTo(DropUnder(
             ParseFunctionWithVisibility(SkipIf(s, "Pub"), FALSE, CurIs(s, "Pub"),
                                         Top(s, 0))),
             "functions")
    ELSE Reduce(Advance(PushDiag(SkipIf(s, "Pub"), "Expected function after attributes")),
                1, [vector |-> "none", value |-> <<>>])

\* Parser::parse, arm Token::Hash
TopHash(s) == TopAttributedItem(AttributeLoop(Push(s, <<>>)))

\* Parser::parse, arm Token::Pub
TopPub(s) ==
    LET s1 == Advance(s)
    IN  CASE CurIs(s1, "Mod") -> PushTo(ParseModule(s1, TRUE), "modules")
          [] CurIs(s1, "Func") ->
                 PushTo(ParseFunctionWithVisibility(s1, FALSE, TRUE, <<>>), "functions")
          [] Cur(s1).k \in {"Struct", "Enum"} -> Unmodelled(s1)
          [] OTHER -> PushNothing(Advance(s1))

\* Parser::parse, arm Token::Mod
TopMod(s) ==
    IF Peek(s, 1).k = "String"
    THEN PushTo(Push(Advance(Advance(s)), Peek(s, 1).v), "imports")
    ELSE PushTo(ParseModule(s, FALSE), "modules")

\* one iteration of the main loop of Parser::parse: match self.current()
TopItem(s) ==
    CASE CurIs(s, "Import") -> PushNothing(Advance(s))
      [] CurIs(s, "Pub") -> TopPub(s)
      [] CurIs(s, "Mod") -> TopMod(s)
      [] CurIs(s, "Func") ->
             PushTo(ParseFunctionWithVisibility(s, FALSE, FALSE, <<>>), "functions")
      [] CurIs(s, "Extern") -> TopExtern(s)
      [] CurIs(s, "Hash") -> TopHash(s)
      [] CurIs(s, "Module") ->
             PushTo(ParseFunctionWithVisibility(Advance(s), TRUE, FALSE, <<>>),
                    "functions")
      [] Cur(s).k \in {"At", "Const", "Type", "Enum", "Struct", "Impl", "Use", "Trait"}
         \/ Cur(s) = Id("export") -> Unmodelled(s)
      [] OTHER -> PushNothing(Advance(s))

(***************************************************************************)
(* Token streams handed to the parser                                      *)
(***************************************************************************)
\* import declarations at the head of a stream
MaxImports == 2
\* statements in the body of main
MaxStmts == 2
\* attributes in front of a function
MaxAttrs == 2
\* top-level forms of a mixed stream
MaxForms == 2
\* tokens of an arbitrary stream
MaxRaw == 2

SeqsUpTo(S, n) == UNION {[1..k -> S] : k \in 0..n}

RECURSIVE Flat(_)
Flat(seqs) == IF seqs = <<>> THEN <<>> ELSE Head(seqs) \o Flat(Tail(seqs))

\* the source text of an import declaration, as tokens:
\* `import X`, `import X from Y`, `from Y import *`, each with or without `;`
DeclTokens(d, semi) ==
    (CASE d.kind = "LibraryImport" -> <<Tk("Import"), Id(d.name)>>
       [] d.kind = "FileImport" -> <<Tk("Import"), Id(d.name), Tk("From"), Id(d.from)>>
       [] d.kind = "WildcardImport" -> <<Tk("From"), Id(d.from), Tk("Import"), Tk("Star")>>)
    \o (IF semi THEN <<Tk("Semicolon")>> ELSE <<>>)

DocDecls ==
    {LibraryImport("foo"), LibraryImport("core"), FileImport("f", "m"), WildcardImport("m")}

\* n declarations, all written with `;` or all without
ImportPrefix(ds, semi) == Flat([i \in 1..Len(ds) |-> DeclTokens(ds[i], semi)])

CallTokens(name) == <<Id(name), Tk("LeftParen"), Tk("RightParen")>>
FuncHead(name) == <<Tk("Func"), Id(name), Tk("LeftParen"), Tk("RightParen")>>

\* func main() foo.bar(); baz(); f() end
MainProgram ==
    FuncHead("main")
    \o <<Id("foo"), Tk("Dot")>> \o CallTokens("bar") \o <<Tk("Semicolon")>>
    \o CallTokens("baz") \o <<Tk("Semicolon")>> \o CallTokens("f")
    \o <<Tk("End"), EOFTok>>

\* import foo; func main(): i32 foo.bar(); baz() end
S6Stream ==
    DeclTokens(LibraryImport("foo"), TRUE)
    \o FuncHead("main") \o <<Tk("Colon"), TyId("i32")>>
    \o <<Id("foo"), Tk("Dot")>> \o CallTokens("bar") \o <<Tk("Semicolon")>>
    \o CallTokens("baz") \o <<Tk("End"), EOFTok>>

ImportStreams ==
    {ImportPrefix(ds, semi) \o MainProgram :
        ds \in SeqsUpTo(DocDecls, MaxImports), semi \in BOOLEAN}

\* statements of a function body
CallWithArg(name, arg) == <<Id(name), Tk("LeftParen")>> \o arg \o <<Tk("RightParen")>>
StmtSources ==
    [call       |-> CallTokens("baz"),
     method     |-> <<Id("foo"), Tk("Dot")>> \o CallTokens("bar"),
     libarg     |-> CallWithArg("foo", CallTokens("g")),
     nested     |-> CallWithArg("h", CallTokens("g")),
     assign     |-> <<Id("x"), Tk("Equals")>> \o CallTokens("g"),
     forloop    |-> <<Tk("For"), Id("i"), Tk("In"), Id("xs"), Tk("Do")>>
                    \o CallTokens("g") \o <<Tk("End")>>,
     typed      |-> <<Id("x"), Tk("Colon"), TyId("i32"), Tk("Equals")>> \o CallTokens("g"),
     member     |-> <<Id("x"), Tk("Dot"), Id("y"), Tk("Equals")>> \o CallTokens("g"),
     exprstmt   |-> CallTokens("g") \o <<Tk("Star"), NumTok("1")>>,
     recv       |-> CallTokens("g") \o <<Tk("Dot")>> \o CallTokens("bar"),
     methodarg  |-> <<Id("x"), Tk("Dot")>> \o CallWithArg("bar", CallTokens("g")),
     named      |-> CallWithArg("g", <<Id("a"), Tk("Equals"), NumTok("1")>>),
     namedstray |-> CallWithArg("g", <<Id("a"), Tk("Equals"), NumTok("1"), NumTok("2")>>),
     letnum     |-> <<Tk("Let"), NumTok("1")>>,
     pubnum     |-> <<Tk("Pub"), NumTok("1")>>,
     emptyid    |-> <<Id("")>>]

StmtForms == DOMAIN StmtSources

\* statements separated by `;`
Body(forms) == Flat([i \in 1..Len(forms) |-> StmtSources[forms[i]] \o <<Tk("Semicolon")>>])

\* what surrounds main: imports in front, definitions behind
Settings ==
    {[head |-> <<>>, tail |-> <<>>],
     [head |-> DeclTokens(LibraryImport("foo"), FALSE), tail |-> <<>>],
     [head |-> <<>>, tail |-> FuncHead("g") \o <<Tk("End")>>],
     [head |-> <<>>, tail |-> <<Tk("Extern")>> \o CallTokens("g")]}

BodyStream(st, forms) ==
    st.head \o FuncHead("main") \o Body(forms) \o <<Tk("End")>> \o st.tail \o <<EOFTok>>

BodyStreams ==
    {BodyStream(st, forms) : st \in Settings, forms \in SeqsUpTo(StmtForms, MaxStmts)}

\* attributes, with the string Stmt / Function records hold for them:
\* #[A] and #[B("arg")]
AttrSources ==
    {[src |-> <<Tk("Hash"), Tk("LeftBracket"), Id("A"), Tk("RightBracket")>>,
      text |-> "A"],
     [src |-> <<Tk("Hash"), Tk("LeftBracket"), Id("B"), Tk("LeftParen"), StrTok("arg"),
                Tk("RightParen"), Tk("RightBracket")>>,
      text |-> "B(arg)"]}

ParamSources ==
    {<<Tk("LeftParen"), Tk("RightParen")>>,
     <<Tk("LeftParen"), Id("a"), Tk("Colon"), TyId("i32"), Tk("RightParen")>>}

\* nothing, `: i32`, `-> i32`, `: usize`, `-> const str`, `: bool`
ReturnSources ==
    {<<>>, <<Tk("Colon"), TyId("i32")>>, <<Tk("Arrow"), TyId("i32")>>,
     <<Tk("Colon"), Tk("Usize")>>, <<Tk("Arrow"), Tk("Const"), Tk("Str")>>,
     <<Tk("Colon"), Tk("Bool")>>}

FuncNames == {"f", "main"}

\* [attributes] [pub] func name(params) [: type] end
FunctionStream(attrs, is_pub, name, params, ret) ==
    Flat([i \in 1..Len(attrs) |-> attrs[i].src])
    \o (IF is_pub THEN <<Tk("Pub")>> ELSE <<>>) \o <<Tk("Func"), Id(name)>>
    \o params \o ret \o <<Tk("End"), EOFTok>>

FunctionStreams ==
    {FunctionStream(attrs, is_pub, name, params, ret) :
        attrs \in SeqsUpTo(AttrSources, MaxAttrs), is_pub \in BOOLEAN, name \in FuncNames,
        params \in ParamSources, ret \in ReturnSources}

\* module func name() [: type] end
ModuleFunctionStream(name, ret) ==
    <<Tk("Module"), Tk("Func"), Id(name), Tk("LeftParen"), Tk("RightParen")>> \o ret
    \o <<Tk("End"), EOFTok>>

ModuleFunctionStreams ==
    {ModuleFunctionStream(name, ret) : name \in FuncNames, ret \in ReturnSources}

\* a parameter list that is never closed
UnclosedStreams ==
    {<<Tk("Func"), Id("f"), Tk("LeftParen")>> \o rest \o eof :
        rest \in {<<>>, <<Id("a"), Tk("Colon"), TyId("i32")>>,
                  <<Id("a"), Tk("Colon"), TyId("i32"), Tk("Comma")>>, <<Tk("End")>>},
        eof \in {<<>>, <<EOFTok>>}}

\* func name() body, never closed by `end`, with or without an EOF token
NoEndStream(name, forms, eof) == FuncHead(name) \o Body(forms) \o eof

NoEndStreams ==
    {NoEndStream(name, forms, eof) :
        name \in FuncNames, forms \in SeqsUpTo(StmtForms, 1), eof \in {<<>>, <<EOFTok>>}}

\* other top-level forms
FormSources ==
    {<<Tk("Mod"), StrTok("path")>>,
     <<Tk("Mod"), Id("M"), Tk("LeftBrace")>> \o FuncHead("g") \o <<Tk("End"), Tk("RightBrace")>>,
     <<Tk("Mod"), Id("M"), Tk("LeftBrace"), Tk("Pub"), NumTok("1"), Tk("RightBrace")>>,
     <<Tk("Pub"), Tk("Mod"), Id("M"), Tk("LeftBrace"), Tk("RightBrace")>>,
     <<Tk("Pub"), NumTok("1")>>,
     <<Tk("Extern"), StrTok("C"), Tk("Colon"), Tk("Func"), Id("g"), Tk("LeftParen"),
       Id("a"), Tk("Colon"), TyId("i32"), Tk("RightParen"), Tk("Colon"), TyId("i32"),
       Tk("End")>>,
     <<Tk("Hash"), NumTok("1")>>,
     DeclTokens(LibraryImport("foo"), TRUE),
     FuncHead("main") \o CallTokens("g") \o <<Tk("End")>>}

FormStreams == {Flat(forms) \o <<EOFTok>> : forms \in SeqsUpTo(FormSources, MaxForms)}

\* arbitrary short streams, without a closing EOF token
RawAlphabet ==
    {Tk("Func"), Tk("LeftParen"), Tk("RightParen"), Tk("End"), Tk("Let"), Tk("Pub"),
     Tk("Import"), Tk("Hash"), Id("g"), Id("")}

RawStreams == SeqsUpTo(RawAlphabet, MaxRaw)

Streams ==
    ImportStreams \cup BodyStreams \cup FunctionStreams \cup ModuleFunctionStreams
    \cup UnclosedStreams \cup NoEndStreams \cup FormStreams \cup RawStreams
    \cup {S6Stream}

(***************************************************************************)
(* Parser::parse as a state machine: the import loop, build_import_context, *)
(* the main loop (one step per top-level form), find_undefined_functions.  *)
(*   pc = "imports"   in the import loop                                   *)
(*        "items"     in the main loop                                     *)
(*        "done"      parse has returned                                   *)
(*        "panicked"  a panic! / unwrap() has unwound parse                *)
(*        "hung"      parse is inside a loop that never ends               *)
(*        "unmodelled" parse has entered code the model does not cover     *)
(***************************************************************************)
\* the parser between two steps of parse: no value is held in a local
ParserState == [pos |-> pos, diags |-> diags, halt |-> "", out |-> <<>>]

\* Parser::new(tokens, ..) followed by the declarations at the head of parse
InitParse ==
    /\ tokens \in Streams
    /\ pos = 0
    /\ diags = <<>>
    /\ pc = "imports"
    /\ prog = EmptyProgram
    /\ ctx = NewImportContext
    /\ undefined = <<>>
    /\ gen = <<>>
    /\ last = [op |-> "new", start |-> 0]

\* self.current() == Token::Import || self.current() == Token::From
AtImport == Cur(ParserState) # EOFTok /\ Cur(ParserState).k \in {"Import", "From"}

\* import_decls.push(self.parse_import())
ImportParsed(r) ==
    /\ pos' = r.pos
    /\ diags' = r.diags
    /\ prog' = [prog EXCEPT !.import_decls = Append(@, Top(r, 0))]
    /\ last' = [op |-> "import", start |-> pos]
    /\ UNCHANGED <<gen, tokens, pc, ctx, undefined>>

ParseImportDecl == pc = "imports" /\ AtImport /\ ImportParsed(ParseImport(ParserState))

\* let import_context = Self::build_import_context(&import_decls)
BuildContext ==
    /\ pc = "imports" /\ ~AtImport
    /\ ctx' = BuildImportContext(prog.import_decls)
    /\ pc' = "items"
    /\ last' = [op |-> "context", start |-> pos]
    /\ UNCHANGED <<gen, tokens, pos, diags, prog, undefined>>

\* one iteration of the main loop has run, or has not come back
ItemParsed(r) ==
    /\ pos' = r.pos
    /\ diags' = r.diags
    /\ pc' = CASE r.halt = "" -> "items"
               [] r.halt = "panic" -> "panicked"
               [] r.halt = "hang" -> "hung"
               [] OTHER -> "unmodelled"
    /\ prog' = IF Running(r) /\ Top(r, 0).vector # "none"
               THEN [prog EXCEPT ![Top(r, 0).vector] = @ \o Top(r, 0).value]
               ELSE prog
    /\ last' = [op |-> "item", start |-> pos]
    /\ UNCHANGED <<gen, tokens, ctx, undefined>>

ParseItem == pc = "items" /\ Cur(ParserState) # EOFTok /\ ItemParsed(TopItem(ParserState))

\* let undefined = self.find_undefined_functions(&functions, &externs, &import_context)
Analyse ==
    /\ pc = "items" /\ Cur(ParserState) = EOFTok
    /\ undefined' = FindUndefinedFunctions(prog.functions, prog.externs, ctx)
    /\ pc' = "done"
    /\ last' = [op |-> "analyse", start |-> pos]
    /\ UNCHANGED <<gen, tokens, pos, diags, prog, ctx>>

NextParse == ParseImportDecl \/ BuildContext \/ ParseItem \/ Analyse

SpecParse == InitParse /\ [][NextParse]_vars

FunctionNames(functions) == {functions[i].name : i \in 1..Len(functions)}
ExternNames(externs) ==
    UNION {{externs[i].functions[j].name : j \in 1..Len(externs[i].functions)} :
           i \in 1..Len(externs)}
UndefinedNames == {undefined[i].name : i \in 1..Len(undefined)}

\* C1: Parser::parse terminates on every token stream: no parsing loop (the
\* parameter loop of an unclosed parameter list and the named-argument loop
\* included) runs for ever.
C1_ParseTerminates == pc # "hung"

\* C2: no token stream makes the parser panic.
C2_NeverPanics == pc # "panicked"

\* C3: a source that begins with n >= 1 import declarations in the documented
\* forms (each closed by `;`) yields exactly these n ImportDecl records, in
\* source order, once the import loop is over.
C3_ImportsAllParsed ==
    \A ds \in SeqsUpTo(DocDecls, MaxImports) :
        (ds # <<>> /\ tokens = ImportPrefix(ds, TRUE) \o MainProgram
         /\ pc \in {"items", "done"})
        => prog.import_decls = ds

\* C4: a name brought in by `import f from lib` (ImportContext.symbol_imports)
\* is never in the undefined-function set parse returns.
C4_ImportedSymbolNotUndefined ==
    pc = "done" => \A name \in UndefinedNames : ~IsImportedSymbol(ctx, name)

RECURSIVE CallsInExprs(_), CallsInStmts(_)
\* the names of the bare calls (Expr::Call) inside a list of expressions
CallsInExprs(es) ==
    IF es = <<>> THEN {}
    ELSE (IF Head(es).tag = "Call" THEN {Head(es).name} ELSE {})
         \cup CallsInExprs(Head(es).recv)
         \cup CallsInExprs(IF Head(es).tag = "CallNamed"
                           THEN [i \in 1..Len(Head(es).args) |-> Head(es).args[i][2]]
                           ELSE Head(es).args)
         \cup CallsInExprs(Tail(es))
\* the names of the bare calls (Stmt::Call, Expr::Call) inside a block
CallsInStmts(ss) ==
    IF ss = <<>> THEN {}
    ELSE (IF Head(ss).tag = "Call" THEN {Head(ss).name} ELSE {})
         \cup CallsInExprs(Head(ss).exprs)
         \cup CallsInStmts(Head(ss).body)
         \cup CallsInStmts(Tail(ss))
CallsInFunctions(functions) ==
    UNION {CallsInStmts(functions[i].body) : i \in 1..Len(functions)}

\* C5: every bare call, wherever it occurs in a function body, to a name that
\* is neither defined (function, extern) nor imported is in the
\* undefined-function set.
C5_EveryCallVisited ==
    pc = "done" =>
        \A name \in CallsInFunctions(prog.functions) :
            (/\ name \notin FunctionNames(prog.functions)
             /\ name \notin ExternNames(prog.externs)
             /\ ~IsLibraryFunction(ctx, name)
             /\ ~IsImportedSymbol(ctx, name))
            => name \in UndefinedNames

\* C6: for `import foo; func main(): i32 foo.bar(); baz() end` the
\* undefined-function set holds baz exactly once and neither foo nor bar; for
\* every program the set holds no top-level function, no extern function, no
\* imported library, and no name twice.
C6_UndefinedSet ==
    pc = "done" =>
        /\ tokens = S6Stream =>
               /\ Cardinality({i \in 1..Len(undefined) : undefined[i].name = "baz"}) = 1
               /\ "foo" \notin UndefinedNames
               /\ "bar" \notin UndefinedNames
        /\ UndefinedNames \cap FunctionNames(prog.functions) = {}
        /\ UndefinedNames \cap ExternNames(prog.externs) = {}
        /\ UndefinedNames \cap ctx.library_imports = {}
        /\ \A i, j \in 1..Len(undefined) :
               undefined[i].name = undefined[j].name => i = j

\* the S6 program has been analysed
C6_Witness == pc = "done" /\ tokens = S6Stream /\ undefined = <<UndefinedFunction("baz", 0)>>

\* what parse_type reads at position p of the stream
TypeAt(p) == Top(ParseType([pos |-> p, diags |-> <<>>, halt |-> "", out |-> <<>>]), 0)

\* the return type the signature asks for: the type written after `:` / `->`
\* (the p-th token), else Int32 for a top-level main, else Void
DocumentedReturnType(name, is_module, ret, p) ==
    IF ret # <<>> THEN TypeAt(p)
    ELSE IF name = "main" /\ ~is_module THEN TyI32
    ELSE TyVoid

\* C9: a function without return type gets Void, a top-level main Int32; a
\* function with `: T` or `-> T` gets the parsed type T.
C9_ReturnType ==
    pc = "done" =>
        /\ \A is_pub \in BOOLEAN, name \in FuncNames, params \in ParamSources,
              ret \in ReturnSources :
               tokens = FunctionStream(<<>>, is_pub, name, params, ret)
               => /\ Len(prog.functions) = 1
                  /\ prog.functions[1].return_type =
                         DocumentedReturnType(name, FALSE, ret,
                             (IF is_pub THEN 1 ELSE 0) + 2 + Len(params) + 1)
        /\ \A name \in FuncNames, ret \in ReturnSources :
               tokens = ModuleFunctionStream(name, ret)
               => /\ Len(prog.functions) = 1
                  /\ prog.functions[1].return_type =
                         DocumentedReturnType(name, TRUE, ret, 6)

\* C10: a top-level function preceded by attributes #[A] / #[A("arg")] is added
\* to the program with exactly the strings A / A(arg) in source order, under
\* the name after `func`, and without a diagnostic.
C10_Attributes ==
    pc = "done" =>
        \A attrs \in SeqsUpTo(AttrSources, MaxAttrs), is_pub \in BOOLEAN,
           name \in FuncNames, params \in ParamSources, ret \in ReturnSources :
            tokens = FunctionStream(attrs, is_pub, name, params, ret)
            => /\ Len(prog.functions) = 1
               /\ prog.functions[1].attributes = [i \in 1..Len(attrs) |-> attrs[i].text]
               /\ prog.functions[1].name = name
               /\ diags = <<>>

\* C11: a function whose body is not closed by `end` before end of input
\* leaves at least one Error diagnostic when parse returns; a well-formed
\* `func name() end` leaves none.
C11_MissingEnd ==
    pc = "done" =>
        /\ \A name \in FuncNames, forms \in SeqsUpTo(StmtForms, 1), eof \in {<<>>, <<EOFTok>>} :
               tokens = NoEndStream(name, forms, eof)
               => \E i \in 1..Len(diags) : diags[i].severity = "Error"
        /\ \A name \in FuncNames :
               tokens = FuncHead(name) \o <<Tk("End"), EOFTok>> => diags = <<>>

\* `func main()` has been parsed to the end of input and stored
C11_Witness ==
    /\ pc = "done" /\ tokens = NoEndStream("main", <<>>, <<>>)
    /\ Len(prog.functions) = 1 /\ prog.functions[1].name = "main"
    /\ Len(diags) = 1

(***************************************************************************)
(* ImportContext on its own: build_import_context on a list of             *)
(* declarations, then add_core_imports any number of times.                *)
(***************************************************************************)
\* declarations handed to build_import_context
MaxDecls == 3
\* further calls of add_core_imports
MaxCoreCalls == 2

InitCtx ==
    /\ tokens = <<>>
    /\ pos = 0
    /\ diags = <<>>
    /\ pc = "ctx"
    /\ prog = EmptyProgram
    /\ ctx = NewImportContext
    /\ undefined = <<>>
    /\ gen = <<>>
    /\ last = [op |-> "new", calls |-> 0]

\* Self::build_import_context(&import_decls)
CtxBuild ==
    /\ last.op = "new"
    /\ \E decls \in SeqsUpTo(DocDecls, MaxDecls) :
           /\ ctx' = BuildImportContext(decls)
           /\ prog' = [prog EXCEPT !.import_decls = decls]
    /\ last' = [op |-> "build", calls |-> 0]
    /\ UNCHANGED <<gen, tokens, pos, diags, pc, undefined>>

\* context.add_core_imports()
CtxAddCore ==
    /\ last.calls < MaxCoreCalls
    /\ ctx' = AddCoreImports(ctx)
    /\ last' = [last EXCEPT !.calls = @ + 1]
    /\ UNCHANGED <<gen, tokens, pos, diags, pc, prog, undefined>>

NextCtx == CtxBuild \/ CtxAddCore

SpecCtx == InitCtx /\ [][NextCtx]_vars

\* C7: the context build_import_context returns holds core (library_imports
\* is a set: once) for every list of declarations; further add_core_imports
\* calls leave it unchanged, with auto_imported set; building again from the
\* same declarations gives an equal context.
C7_CoreImported ==
    /\ last.op = "build" =>
           /\ "core" \in ctx.library_imports
           /\ ctx.auto_imported
           /\ AddCoreImports(ctx) = ctx
           /\ ctx = BuildImportContext(prog.import_decls)
    /\ last.calls > 0 => ("core" \in ctx.library_imports /\ ctx.auto_imported)

\* a context built from declarations that import core themselves, after a
\* further add_core_imports
C7_Witness ==
    /\ last.op = "build" /\ last.calls > 0
    /\ \E i \in 1..Len(prog.import_decls) : prog.import_decls[i] = LibraryImport("core")
    /\ "core" \in ctx.library_imports

(***************************************************************************)
(* Parser::expect on its own: calls of expect on streams of filler tokens  *)
(* followed by a short tail.                                               *)
(***************************************************************************)
\* filler tokens in front of the tail
MaxFiller == 51
\* tokens of the tail
MaxTail == 2
\* calls of expect that miss
MaxExpects == 2

Filler == Id("x")
ExpectedTokens == {Tk("RightParen"), EOFTok}
SyncSets == {{}, {Tk("Semicolon")}, {Tk("Semicolon"), Tk("RightParen")}}
TailAlphabet == {Tk("RightParen"), Tk("Semicolon"), EOFTok, Filler}

ExpectStreams ==
    {[i \in 1..k |-> Filler] \o tail :
        k \in 0..MaxFiller, tail \in SeqsUpTo(TailAlphabet, MaxTail)}

InitExpect ==
    /\ tokens \in ExpectStreams
    /\ pos = 0
    /\ diags = <<>>
    /\ pc = "expect"
    /\ prog = EmptyProgram
    /\ ctx = NewImportContext
    /\ undefined = <<>>
    /\ gen = <<>>
    /\ last = [op |-> "new", start |-> 0, ndiags |-> 0, expected |-> EOFTok, sync |-> {}]

\* self.expect(expected, sync) has returned
Expected(r, expected, sync) ==
    /\ pos' = r.pos
    /\ diags' = r.diags
    /\ last' = [op |-> "expect", start |-> pos, ndiags |-> Len(diags),
                expected |-> expected, sync |-> sync]
    /\ UNCHANGED <<gen, tokens, pc, prog, ctx, undefined>>

ExpectCall ==
    /\ pc = "expect" /\ pos <= Len(tokens) /\ Len(diags) < MaxExpects
    /\ \E expected \in ExpectedTokens, sync \in SyncSets :
           Expected(Expect(ParserState, expected, sync), expected, sync)

NextExpect == ExpectCall

SpecExpect == InitExpect /\ [][NextExpect]_vars

\* where a call of expect that misses at position p stops looking: the first
\* position from p on that holds the expected token, a token of the sync set
\* or EOF, that lies behind the last token, or that lies max_skip tokens on
StopsAt(j, p, expected, sync) ==
    \/ j = p + max_skip
    \/ j >= Len(tokens)
    \/ TokAt(j) = expected
    \/ TokAt(j) \in sync
    \/ TokAt(j) = EOFTok
StopIndex(p, expected, sync) ==
    CHOOSE j \in p..(p + max_skip) :
        /\ StopsAt(j, p, expected, sync)
        /\ \A i \in p..(j - 1) : ~StopsAt(i, p, expected, sync)

\* C8: expect(tok, sync) on a current token equal to tok appends no diagnostic
\* and advances by one; otherwise it appends one Error diagnostic and stops
\* just after the nearest following tok, on the nearest token of sync, at EOF,
\* or after max_skip skipped tokens, whichever comes first.  The cursor never
\* moves backwards, nor by more than max_skip tokens.
C8_ExpectContract ==
    last.op = "expect" =>
        /\ TokAt(last.start) = last.expected =>
               (pos = last.start + 1 /\ Len(diags) = last.ndiags)
        /\ TokAt(last.start) # last.expected =>
               /\ Len(diags) = last.ndiags + 1
               /\ diags[Len(diags)].severity = "Error"
               /\ SubSeq(diags, 1, last.ndiags) = SubSeq(diags, 1, Len(diags) - 1)
               /\ LET j == StopIndex(last.start, last.expected, last.sync)
                  IN  pos = IF /\ j < last.start + max_skip
                               /\ j < Len(tokens)
                               /\ TokAt(j) = last.expected
                            THEN j + 1 ELSE j
        /\ pos >= last.start
        /\ pos - last.start <= max_skip

\* a call of expect that gave up after max_skip skipped tokens although the
\* expected token lay further on
C8_Witness ==
    /\ last.op = "expect"
    /\ pos = last.start + max_skip
    /\ \E j \in pos..Len(tokens) - 1 : TokAt(j) = last.expected
    /\ \A i \in last.start..pos - 1 : TokAt(i) = Filler

(***************************************************************************)
(* Parser::parse_type on its own: a base type, array suffixes, and the     *)
(* token that follows the type expression.                                 *)
(***************************************************************************)
\* array suffixes behind the base type
MaxSuffixes == 2

\* base types with the Type parse_base_type gives them:
\* i32, i64, str, bool, a struct name, a tuple
BaseTypeSources ==
    {[src |-> <<TyId("i32")>>, ty |-> TyI32],
     [src |-> <<TyId("i64")>>, ty |-> TyI64],
     [src |-> <<Tk("Str")>>, ty |-> TyStr(TyI64)],
     [src |-> <<Tk("Bool")>>, ty |-> TyBool],
     [src |-> <<Id("S")>>, ty |-> TyStruct("S")],
     [src |-> <<Tk("LeftParen"), TyId("i32"), Tk("Comma"), Tk("Bool"), Tk("RightParen")>>,
      ty |-> TyTuple(<<TyI32, TyBool>>)]}

\* `[]`, `[1]`, `[2]` with the size Type::Array holds
SuffixSources ==
    {[src |-> <<Tk("LeftBracket"), Tk("RightBracket")>>, size |-> <<>>],
     [src |-> <<Tk("LeftBracket"), NumTok("1"), Tk("RightBracket")>>, size |-> <<"1">>],
     [src |-> <<Tk("LeftBracket"), NumTok("2"), Tk("RightBracket")>>, size |-> <<"2">>]}

TypeTails == {<<>>, <<EOFTok>>, <<Tk("Comma")>>, <<Tk("End")>>}

TypeStream(base, suffixes, tail) ==
    base.src \o Flat([i \in 1..Len(suffixes) |-> suffixes[i].src]) \o tail

TypeStreams ==
    {TypeStream(base, suffixes, tail) :
        base \in BaseTypeSources, suffixes \in SeqsUpTo(SuffixSources, MaxSuffixes),
        tail \in TypeTails}

InitType ==
    /\ tokens \in TypeStreams
    /\ pos = 0
    /\ diags = <<>>
    /\ pc = "type"
    /\ prog = EmptyProgram
    /\ ctx = NewImportContext
    /\ undefined = <<>>
    /\ gen = <<>>
    /\ last = [op |-> "new", ty |-> TyVoid]

\* let ty = self.parse_type() has returned
TypeParsed(r) ==
    /\ pos' = r.pos
    /\ diags' = r.diags
    /\ pc' = IF r.halt = "" THEN "type" ELSE r.halt
    /\ last' = [op |-> "type", ty |-> IF r.halt = "" THEN Top(r, 0) ELSE TyVoid]
    /\ UNCHANGED <<gen, tokens, prog, ctx, undefined>>

ParseTypeCall ==
    /\ pc = "type" /\ last.op = "new"
    /\ TypeParsed(ParseType(ParserState))

NextType == ParseTypeCall

SpecType == InitType /\ [][NextType]_vars

\* C12: for every base type T, `T[]` parses to Array{T, None} and `T[N]` to
\* Array{T, Some(N)}, the closing `]` consumed.
C12_ArraySuffix ==
    last.op = "type" =>
        \A base \in BaseTypeSources, suffix \in SuffixSources, tail \in TypeTails :
            tokens = TypeStream(base, <<suffix>>, tail)
            => /\ pc = "type"
               /\ last.ty = TyArray(base.ty, suffix.size)
               /\ pos = Len(base.src) + Len(suffix.src)

(***************************************************************************)
(* The C code generator (Gen/build).  gen is the Codegen: the text of the  *)
(* function body being emitted, the fresh-variable counter, the diagnostic *)
(* sink, the IR buffers and the symbol tables.  An expression-lowering     *)
(* operation returns r = [gen, ok, var, ty]: the Codegen it leaves, and    *)
(* Ok((var, ty)) when ok, Err(()) otherwise.                               *)
(***************************************************************************)
TyF64 == TyPrim("f64")
TyChar == TyPrim("char")
TyStdStr == Ty("StdStr", "", <<>>, <<>>)
TyRef(inner) == Ty("Ref", "", <<inner>>, <<>>)
TyMutRef(inner) == Ty("MutRef", "", <<inner>>, <<>>)
TyPtr(inner) == Ty("Ptr", "", <<inner>>, <<>>)

\* Type::Int{..}, Type::Float{..}, Type::Char{..} among the primitive types
IsInt(ty) == ty.t = "Prim" /\ ty.name \in {"i8", "i16", "i32", "i64", "u8", "u32", "u64"}
IsFloat(ty) == ty.t = "Prim" /\ ty.name \in {"f32", "f64"}
IsChar(ty) == ty.t = "Prim" /\ ty.name = "char"

\* an expression whose lowering is known: a variable or literal of type ty
\* that codegen_expr returns as it stands
Atom(var, ty) == [var |-> var, ty |-> ty]

\* (params, return type) of user_functions / extern_functions; with the
\* third component for impl_methods (is_instance) and module_functions (is_public)
Sig(params, ret) == [params |-> params, ret |-> ret]
Sig3(params, ret, flag) == [params |-> params, ret |-> ret, flag |-> flag]

Ok(g, var, ty) == [gen |-> g, ok |-> TRUE, var |-> var, ty |-> ty]
Err(g) == [gen |-> g, ok |-> FALSE, var |-> "", ty |-> TyVoid]

\* body.push_str(text)
Emit(g, text) == [g EXCEPT !.body = @ \o text]

RECURSIVE Join(_)
\* arg_vars.join(", ")
Join(strs) ==
    IF strs = <<>> THEN ""
    ELSE IF Len(strs) = 1 THEN strs[1]
    ELSE strs[1] \o ", " \o Join(Tail(strs))

\* Codegen::fresh_var: names come from a counter that only grows
FreshVar(g) == "t" \o ToString(g.counter)
BumpVar(g) == [g EXCEPT !.counter = @ + 1]

\* self.diagnostics.error(kind, ..) / self.diagnostics.warning(kind, ..)
Report(g, kind, severity) ==
    [g EXCEPT !.diagnostics = Append(@, [kind |-> kind, severity |-> severity])]

RECURSIVE CType(_), Mangled(_), TupleSuffix(_)
\* the name of a type inside a synthesized aggregate name
Mangled(ty) ==
    CASE ty.t = "Prim" -> ty.name
      [] ty.t = "Struct" -> ty.name
      [] ty.t = "Str" -> "char"
      [] ty.t = "Tuple" -> CType(ty)
      [] OTHER -> ty.t
\* _<field> for each field of a tuple
TupleSuffix(fields) ==
    IF fields = <<>> THEN "" ELSE "_" \o Mangled(Head(fields)) \o TupleSuffix(Tail(fields))
\* Type::to_c_type: the canonical C name of a type
CType(ty) ==
    CASE ty.t = "Prim" ->
             (CASE ty.name = "i32" -> "int32_t" [] ty.name = "i64" -> "int64_t"
                [] ty.name = "u8" -> "uint8_t" [] ty.name = "f64" -> "double"
                [] ty.name = "char" -> "char" [] OTHER -> ty.name)
      [] ty.t = "Void" -> "void"
      [] ty.t = "Bool" -> "bool"
      [] ty.t = "Str" -> "Slice_char"
      [] ty.t = "ConstStr" -> "const char*"
      [] ty.t = "Struct" -> ty.name
      [] ty.t \in {"Ref", "MutRef", "Ptr"} -> CType(ty.of[1]) \o "*"
      [] ty.t = "Const" -> "const " \o CType(ty.of[1])
      [] ty.t = "Array" -> "Slice_" \o Mangled(ty.of[1])
      [] ty.t = "Tuple" -> "Tuple" \o TupleSuffix(ty.of)
      [] OTHER -> ty.t

ArgVars(args) == [i \in 1..Len(args) |-> args[i].var]

\* `type name = callee(args);`, or `callee(args);` alone
CallText(callee, arg_vars) == callee \o "(" \o Join(arg_vars) \o ");\n"
DeclText(c_type, name, callee, arg_vars) ==
    c_type \o " " \o name \o " = " \o CallText(callee, arg_vars)

\* codegen_method_call: Some(name) of the receiver's struct, as <<name>>
StructOf(obj_ty) ==
    IF obj_ty.t = "Struct" THEN <<obj_ty.name>>
    ELSE IF obj_ty.t \in {"Ref", "MutRef"} /\ obj_ty.of[1].t = "Struct"
         THEN <<obj_ty.of[1].name>>
    ELSE <<>>

\* codegen_method_call: (return_type, is_instance, method_full_name)
MethodTarget(g, struct_name, method) ==
    IF struct_name # <<>> /\ <<struct_name[1], method>> \in DOMAIN g.impl_methods
    THEN LET mi == g.impl_methods[<<struct_name[1], method>>]
         IN  [ret |-> mi.ret, inst |-> mi.flag, name |-> struct_name[1] \o "_" \o method]
    ELSE IF method \in DOMAIN g.user_functions
    THEN [ret |-> g.user_functions[method].ret, inst |-> TRUE, name |-> method]
    ELSE IF method \in DOMAIN g.extern_functions
    THEN [ret |-> g.extern_functions[method].ret, inst |-> TRUE, name |-> method]
    ELSE IF struct_name # <<>> /\ (struct_name[1] \o "_" \o method) \in DOMAIN g.user_functions
    THEN [ret |-> g.user_functions[struct_name[1] \o "_" \o method].ret, inst |-> TRUE,
          name |-> struct_name[1] \o "_" \o method]
    ELSE [ret |-> TyI32, inst |-> TRUE, name |-> method]

\* Codegen::codegen_method_call
CodegenMethodCall(g, obj, method, args) ==
    LET struct_name == StructOf(obj.ty)
        target == MethodTarget(g, struct_name, method)
        is_struct_method ==
            struct_name # <<>> /\ <<struct_name[1], method>> \in DOMAIN g.impl_methods
        receiver ==
            IF ~target.inst THEN <<>>
            ELSE IF obj.ty.t \in {"Ref", "MutRef", "Ptr", "RawPtr"} THEN <<obj.var>>
            ELSE IF is_struct_method THEN <<"&" \o obj.var>>
            ELSE <<obj.var>>
        arg_vars == receiver \o ArgVars(args)
        tmp == FreshVar(g)
    IN  IF target.ret = TyVoid
        THEN Ok(Emit(BumpVar(g), CallText(target.name, arg_vars)), "", TyVoid)
        ELSE Ok(Emit(BumpVar(g), DeclText(CType(target.ret), tmp, target.name, arg_vars)),
                tmp, target.ret)

\* String::contains
Contains(text, sub) ==
    \E i \in 1..(Len(text) - Len(sub) + 1) : SubSeq(text, i, i + Len(sub) - 1) = sub

\* TypeRegistry::generate_tuple_definition: the typedef of a tuple type
TupleDefinition(ty) == "typedef struct " \o CType(ty) \o " " \o CType(ty) \o ";"

RECURSIVE TupleFields(_, _)
\* codegen_tuple: the initializers ` .field_i = var` from the i-th on
TupleFields(element_vars, i) ==
    IF i > Len(element_vars) THEN ""
    ELSE (IF i > 1 THEN ", " ELSE "")
         \o " .field_" \o ToString(i - 1) \o " = " \o element_vars[i]
         \o TupleFields(element_vars, i + 1)

\* codegen_tuple appending the typedef without looking for it in the buffer
CodegenTupleAlways(g, elements) ==
    LET tuple_type == TyTuple([i \in 1..Len(elements) |-> elements[i].ty])
        tuple_def == TupleDefinition(tuple_type)
        g1 == [g EXCEPT !.forward_decls = @ \o tuple_def \o "\n"]
        tmp == FreshVar(g1)
    IN  Ok(Emit(BumpVar(g1), CType(tuple_type) \o " " \o tmp \o " = {"
                             \o TupleFields(ArgVars(elements), 1) \o " };\n"),
           tmp, tuple_type)

\* Codegen::codegen_tuple
CodegenTuple(g, elements) ==
    LET tuple_type == TyTuple([i \in 1..Len(elements) |-> elements[i].ty])
        tuple_def == TupleDefinition(tuple_type)
        g1 == IF Contains(g.forward_decls, tuple_def)
              THEN g
              ELSE [g EXCEPT !.forward_decls = @ \o tuple_def \o "\n"]
        tmp == FreshVar(g1)
    IN  Ok(Emit(BumpVar(g1), CType(tuple_type) \o " " \o tmp \o " = {"
                             \o TupleFields(ArgVars(elements), 1) \o " };\n"),
           tmp, tuple_type)

\* a tuple expression; a variable or literal is Atom(var, ty)
TupleExpr(elements) ==
    [var |-> "", ty |-> TyTuple([i \in 1..Len(elements) |-> elements[i].ty]),
     tuple |-> elements]

\* Codegen::codegen_expr: a variable or a literal is its own result, a tuple
\* expression is lowered by codegen_tuple
CodegenExpr(g, e) ==
    IF "tuple" \in DOMAIN e THEN CodegenTuple(g, e.tuple) ELSE Ok(g, e.var, e.ty)

\* Codegen::codegen_make_panic
CodegenMakePanic(g, expr) ==
    LET tmp == FreshVar(g)
    IN  Ok(Emit(BumpVar(g), "fprintf(stderr, \"panic: %s\\n\", " \o expr.var \o ");\n"
                            \o "exit(1);\n" \o "int " \o tmp \o " = 0;\n"),
           tmp, TyVoid)

\* self.diagnostics.has_errors(): a diagnostic of error severity is recorded
HasErrors(g) == \E i \in 1..Len(g.diagnostics) : g.diagnostics[i].severity = "Error"

\* the lookup of the return type with extern_functions before user_functions
CodegenModuleCallExternFirst(g, module, func, args) ==
    LET full_func_name == module \o "_" \o func
        found == \/ full_func_name \in DOMAIN g.user_functions
                 \/ full_func_name \in DOMAIN g.extern_functions
                 \/ <<module, func>> \in DOMAIN g.module_functions
        return_type ==
            IF full_func_name \in DOMAIN g.extern_functions
            THEN g.extern_functions[full_func_name].ret
            ELSE IF full_func_name \in DOMAIN g.user_functions
            THEN g.user_functions[full_func_name].ret
            ELSE IF <<module, func>> \in DOMAIN g.module_functions
            THEN g.module_functions[<<module, func>>].ret
            ELSE TyVoid
        g1 == IF found THEN g ELSE Report(g, "UndefinedModuleFunction", "Warning")
        tmp == FreshVar(g1)
    IN  IF return_type = TyVoid
        THEN Ok(Emit(BumpVar(g1), CallText(full_func_name, ArgVars(args))
                                  \o "int32_t " \o tmp \o " = 0;\n"),
                tmp, TyVoid)
        ELSE Ok(Emit(BumpVar(g1),
                     DeclText(CType(return_type), tmp, full_func_name, ArgVars(args))),
                tmp, return_type)

\* a call of the missing method is emitted before the lowering fails
CodegenStaticMethodCallsAnyway(g, type_name, method, args) ==
    LET tmp == FreshVar(g)
        method_name == type_name \o "_" \o method
    IN  IF method = "new"
        THEN Ok(Emit(BumpVar(g), DeclText(type_name, tmp, type_name \o "_new", ArgVars(args))),
                tmp, TyStruct(type_name))
        ELSE IF <<type_name, method>> \in DOMAIN g.impl_methods
        THEN Ok(Emit(BumpVar(g),
                     DeclText(CType(g.impl_methods[<<type_name, method>>].ret), tmp,
                              method_name, ArgVars(args))),
                tmp, g.impl_methods[<<type_name, method>>].ret)
        ELSE IF method_name \in DOMAIN g.user_functions
        THEN Ok(Emit(BumpVar(g),
                     DeclText(CType(g.user_functions[method_name].ret), tmp,
                              method_name, ArgVars(args))),
                tmp, g.user_functions[method_name].ret)
        ELSE Err(Report(Emit(BumpVar(g), DeclText("void", tmp, method_name, ArgVars(args))),
                        "UndefinedMethod", "Error"))

\* Codegen::codegen_module_call
CodegenModuleCall(g, module, func, args) ==
    LET full_func_name == module \o "_" \o func
        found == \/ full_func_name \in DOMAIN g.user_functions
                 \/ full_func_name \in DOMAIN g.extern_functions
                 \/ <<module, func>> \in DOMAIN g.module_functions
        return_type ==
            IF full_func_name \in DOMAIN g.user_functions
            THEN g.user_functions[full_func_name].ret
            ELSE IF full_func_name \in DOMAIN g.extern_functions
            THEN g.extern_functions[full_func_name].ret
            ELSE IF <<module, func>> \in DOMAIN g.module_functions
            THEN g.module_functions[<<module, func>>].ret
            ELSE TyVoid
        g1 == IF found THEN g ELSE Report(g, "UndefinedModuleFunction", "Warning")
        tmp == FreshVar(g1)
    IN  IF return_type = TyVoid
        THEN Ok(Emit(BumpVar(g1), CallText(full_func_name, ArgVars(args))
                                  \o "int32_t " \o tmp \o " = 0;\n"),
                tmp, TyVoid)
        ELSE Ok(Emit(BumpVar(g1),
                     DeclText(CType(return_type), tmp, full_func_name, ArgVars(args))),
                tmp, return_type)

\* Codegen::codegen_static_method
CodegenStaticMethod(g, type_name, method, args) ==
    LET tmp == FreshVar(g)
        method_name == type_name \o "_" \o method
    IN  IF method = "new"
        THEN Ok(Emit(BumpVar(g), DeclText(type_name, tmp, type_name \o "_new", ArgVars(args))),
                tmp, TyStruct(type_name))
        ELSE IF <<type_name, method>> \in DOMAIN g.impl_methods
        THEN Ok(Emit(BumpVar(g),
                     DeclText(CType(g.impl_methods[<<type_name, method>>].ret), tmp,
                              method_name, ArgVars(args))),
                tmp, g.impl_methods[<<type_name, method>>].ret)
        ELSE IF method_name \in DOMAIN g.user_functions
        THEN Ok(Emit(BumpVar(g),
                     DeclText(CType(g.user_functions[method_name].ret), tmp,
                              method_name, ArgVars(args))),
                tmp, g.user_functions[method_name].ret)
        ELSE Err(Report(BumpVar(g), "UndefinedMethod", "Error"))

\* Codegen::codegen_cast
CodegenCast(g, expr, target_ty) ==
    LET g1 == IF expr.ty.t = "Ptr" /\ target_ty.t \notin {"Ptr", "RawPtr"}
              THEN Report(g, "UnsafeCast", "Warning") ELSE g
        c_type == CType(target_ty)
        tmp == FreshVar(g1)
    IN  Ok(Emit(BumpVar(g1), c_type \o " " \o tmp \o " = (" \o c_type \o ")" \o expr.var \o ";\n"),
           tmp, target_ty)

\* Codegen::codegen_member_access
CodegenMemberAccess(g, obj, field) ==
    LET struct_name == StructOf(obj.ty)
        fields == IF struct_name[1] \in DOMAIN g.structs THEN g.structs[struct_name[1]] ELSE <<>>
        found == {i \in 1..Len(fields) : fields[i].name = field}
        field_ty == IF found # {}
                    THEN fields[CHOOSE i \in found : \A j \in found : i <= j].ty ELSE TyI32
        tmp == FreshVar(g)
        op == IF obj.ty.t \in {"Ref", "MutRef"} THEN "->" ELSE "."
    IN  IF struct_name = <<>> THEN Err(g)
        ELSE Ok(Emit(BumpVar(g), CType(field_ty) \o " " \o tmp \o " = " \o obj.var \o op
                                 \o field \o ";\n"),
                tmp, field_ty)

\* Codegen::resolve_function_name: a user or extern function resolves to its
\* own name, every other name to the literal name (no impl block is open)
ResolveFunctionName(g, func) ==
    IF func \in DOMAIN g.user_functions \cup DOMAIN g.extern_functions THEN func ELSE func

\* codegen_call_stmt: the argument list after the coercions of the call
\* boundary; param_types is <<types>> for Some(types) and <<>> for None
CoercedArgs(g, resolved_func, args) ==
    LET param_types ==
            IF resolved_func \in DOMAIN g.extern_functions
            THEN <<g.extern_functions[resolved_func].params>>
            ELSE IF resolved_func \in DOMAIN g.user_functions
            THEN <<g.user_functions[resolved_func].params>>
            ELSE <<>>
        needs_ptr(param_ty) ==
            \/ param_ty.t = "ConstStr"
            \/ /\ param_ty.t = "Ptr"
               /\ param_ty.of[1].t = "Const"
               /\ IsChar(param_ty.of[1].of[1])
    IN  [i \in 1..Len(args) |->
            IF param_types # <<>>
            THEN IF i <= Len(param_types[1]) /\ needs_ptr(param_types[1][i])
                    /\ args[i].ty.t = "Str"
                 THEN args[i].var \o ".ptr" ELSE args[i].var
            ELSE IF args[i].ty.t = "Str" THEN args[i].var \o ".ptr" ELSE args[i].var]

\* Codegen::codegen_call_stmt
CodegenCallStmt(g, func, args) ==
    LET resolved_func == ResolveFunctionName(g, func)
    IN  Ok(Emit(g, CallText(resolved_func, CoercedArgs(g, resolved_func, args))),
           "", TyVoid)

\* a constant that no rule of default values produces
DefaultValueZero(field_ty) == "0"

\* codegen_call_expr: let default_val = match field_ty
DefaultValue(field_ty) ==
    IF IsInt(field_ty) THEN "0"
    ELSE IF IsFloat(field_ty) THEN "0.0"
    ELSE IF field_ty.t = "Bool" THEN "false"
    ELSE IF field_ty.t = "Str" THEN "((Slice_char){ .ptr = \"\", .len = 0 })"
    ELSE IF field_ty.t = "ConstStr" THEN "\"\""
    ELSE "{ 0 }"

\* Codegen::codegen_call_expr; the last arm hands over to codegen_std_call,
\* which is outside Gen/build: its result is marked and no action takes it
CodegenCallExpr(g, func, args) ==
    LET resolved_func == ResolveFunctionName(g, func)
        tmp == FreshVar(g)
        InnerType(obj_ty) ==
            IF obj_ty.t = "Array" THEN obj_ty.of[1]
            ELSE IF obj_ty.t = "Str" THEN TyChar
            ELSE TyVoid
    IN  IF resolved_func \in DOMAIN g.structs
        THEN LET fields == g.structs[resolved_func]
                 arg_vars == IF args = <<>>
                             THEN [i \in 1..Len(fields) |-> DefaultValue(fields[i].ty)]
                             ELSE ArgVars(args)
             IN  Ok(Emit(BumpVar(g),
                         DeclText(resolved_func, tmp, resolved_func \o "_new", arg_vars)),
                    tmp, TyStruct(resolved_func))
        ELSE IF \E i \in 1..Len(g.linked_libraries) : g.linked_libraries[i] = func
        THEN Err(Report(g, "InvalidLibraryCall", "Error"))
        ELSE IF func \in {"as_bytes", "as_ptr", "as_mut_ptr", "size_of", "sizeof"}
        THEN IF Len(args) # 1 THEN Err(g)
             ELSE IF func = "as_bytes"
             THEN Ok(Emit(BumpVar(g),
                          CType(TyArray(TyPrim("u8"), <<>>)) \o " " \o tmp
                          \o " = { .ptr = (uint8_t*)" \o args[1].var \o ".ptr, .len = "
                          \o args[1].var \o ".len };\n"),
                     tmp, TyArray(TyPrim("u8"), <<>>))
             ELSE IF func = "as_ptr"
             THEN Ok(Emit(BumpVar(g),
                          "const " \o CType(InnerType(args[1].ty)) \o "* " \o tmp \o " = "
                          \o args[1].var \o ".ptr;\n"),
                     tmp, TyPtr(TyConst(InnerType(args[1].ty))))
             ELSE IF func = "as_mut_ptr"
             THEN Ok(Emit(BumpVar(g),
                          CType(InnerType(args[1].ty)) \o "* " \o tmp \o " = "
                          \o args[1].var \o ".ptr;\n"),
                     tmp, TyMutRef(InnerType(args[1].ty)))
             ELSE Ok(Emit(BumpVar(g), "size_t " \o tmp \o " = sizeof(" \o args[1].var \o ");\n"),
                     tmp, TyPrim("u64"))
        ELSE [gen |-> g, ok |-> FALSE, var |-> "<codegen_std_call>", ty |-> TyVoid]

RECURSIVE TypesCompatible(_, _)
\* Codegen::types_compatible (Option, Result and HashMap are no types of the model)
TypesCompatible(ty1, ty2) ==
    LET strings == {"Str", "ConstStr", "StdStr"}
    IN  IF IsInt(ty1) /\ IsInt(ty2) THEN ty1.name = ty2.name
        ELSE IF IsFloat(ty1) /\ IsFloat(ty2) THEN ty1.name = ty2.name
        ELSE IF ty1.t = "Bool" /\ ty2.t = "Bool" THEN TRUE
        ELSE IF ty1.t = "Void" /\ ty2.t = "Void" THEN TRUE
        ELSE IF IsChar(ty1) /\ IsChar(ty2) THEN TRUE
        ELSE IF ty1.t \in strings /\ ty2.t \in strings THEN TRUE
        ELSE IF ty1.t = "Ptr" /\ ty2.t = "Ptr" THEN TypesCompatible(ty1.of[1], ty2.of[1])
        ELSE IF ty1.t = "Struct" /\ ty2.t = "Struct" THEN ty1.name = ty2.name
        ELSE IF ty1.t = "Array" /\ ty2.t = "Array"
        THEN TypesCompatible(ty1.of[1], ty2.of[1]) /\ ty1.size = ty2.size
        ELSE IF ty1.t = "Tuple" /\ ty2.t = "Tuple"
        THEN /\ Len(ty1.of) = Len(ty2.of)
             /\ \A i \in 1..Len(ty1.of) : TypesCompatible(ty1.of[i], ty2.of[i])
        ELSE IF ty1.t = "Const" /\ ty2.t = "Const" THEN TypesCompatible(ty1.of[1], ty2.of[1])
        ELSE IF ty1.t = "Const" THEN TypesCompatible(ty1.of[1], ty2)
        ELSE IF ty2.t = "Const" THEN TypesCompatible(ty1, ty2.of[1])
        ELSE FALSE

\* Codegen::ensure_unified_push; the helper text is cut down to the names it defines
EnsureUnifiedPush(g) ==
    IF Contains(g.functions, "vix_push") THEN g
    ELSE [g EXCEPT !.functions = @ \o "#define vix_push(arr, elem) vix_push_impl(arr, &(elem))\n"
                                   \o "void* vix_push_impl(void* arr_ptr) { vix_malloc(); }\n"]

\* Codegen::ensure_unified_extend
EnsureUnifiedExtend(g) ==
    IF Contains(g.functions, "vix_extend") THEN g
    ELSE [g EXCEPT !.functions = @ \o "#define vix_extend(dest, src) vix_extend_impl(&(dest), &(src))\n"
                                   \o "void vix_extend_impl(void* dest_ptr) { }\n"]

\* Codegen::ensure_zero_alloc_string_ops
EnsureZeroAllocStringOps(g) ==
    IF Contains(g.functions, "vix_str_concat_view") THEN g
    ELSE [g EXCEPT !.functions = @ \o "Slice_char vix_str_concat_view(Slice_char s1) { }\n"
                                   \o "void vix_str_append_inplace(Slice_char* dest) { }\n"
                                   \o "void vix_arena_init(size_t size) { }\n"
                                   \o "void* vix_arena_alloc(size_t size) { }\n"
                                   \o "Slice_char vix_str_concat_arena(Slice_char s1) { }\n"]

\* Codegen::codegen_push_unified
CodegenPushUnified(g, arr, elem) ==
    Emit(EnsureUnifiedPush(g), "vix_push(" \o arr \o ", " \o elem \o ");\n")

\* Codegen::codegen_extend_unified
CodegenExtendUnified(g, dest, src) ==
    Emit(EnsureUnifiedExtend(g), "vix_extend(" \o dest \o ", " \o src \o ");\n")

\* Codegen::codegen_str_append_zero_alloc
CodegenStrAppendZeroAlloc(g, dest, src) ==
    Emit(EnsureZeroAllocStringOps(g), "vix_str_append_inplace(&" \o dest \o ", " \o src \o ");\n")

\* Codegen::codegen_compound_assign
CodegenCompoundAssign(g0, name, op, value) ==
    LET val == CodegenExpr(g0, value)
        g == val.gen
        val_var == val.var
        val_ty == val.ty
        c_name == g.vars[name].var
        var_ty == g.vars[name].ty
        literal == Ok(Emit(g, c_name \o " " \o op \o " " \o val_var \o ";\n"), "", TyVoid)
    IN  IF name \notin DOMAIN g.vars THEN Err(Report(g, "UndefinedVariable", "Error"))
        ELSE IF var_ty.t = "Void" \/ val_ty.t = "Void"
        THEN Err(Report(g, "VoidOperation", "Error"))
        ELSE IF op # "+=" THEN literal
        ELSE IF var_ty.t = "Array" /\ val_ty.t = "Array"
        THEN LET arr_elem == var_ty.of[1]
                 val_elem == val_ty.of[1]
             IN  IF TypesCompatible(arr_elem, val_elem)
                 THEN Ok(CodegenExtendUnified(g, c_name, val_var), "", TyVoid)
                 ELSE IF \/ arr_elem.t = "Str" /\ val_elem.t = "StdStr"
                         \/ arr_elem.t = "StdStr" /\ val_elem.t \in {"Str", "ConstStr"}
                 THEN Ok(CodegenExtendUnified(g, c_name, val_var), "", TyVoid)
                 ELSE Err(Report(g, "TypeMismatch", "Error"))
        ELSE IF var_ty.t = "Array"
        THEN IF TypesCompatible(var_ty.of[1], val_ty)
             THEN Ok(CodegenPushUnified(g, c_name, val_var), "", TyVoid)
             ELSE IF var_ty.of[1].t = "Str" /\ val_ty.t = "StdStr"
             THEN Ok(CodegenPushUnified(g, c_name, val_var), "", TyVoid)
             ELSE literal
        ELSE IF var_ty.t = "Str" /\ val_ty.t \in {"Str", "ConstStr"}
        THEN Ok(CodegenStrAppendZeroAlloc(g, c_name, val_var), "", TyVoid)
        ELSE IF var_ty.t = "Str" /\ val_ty.t = "StdStr"
        THEN Ok(CodegenStrAppendZeroAlloc(g, c_name, val_var), "", TyVoid)
        ELSE IF var_ty.t = "StdStr" /\ val_ty.t \in {"Str", "ConstStr", "StdStr"}
        THEN Ok(CodegenStrAppendZeroAlloc(g, c_name, val_var), "", TyVoid)
        ELSE literal

\* Codegen::codegen_assign
CodegenAssign(g, name, value) ==
    LET c_name == g.vars[name].var
        var_ty == g.vars[name].ty
        val == CodegenExpr(g, value)
    IN  IF name \notin DOMAIN g.vars THEN Err(Report(g, "UndefinedVariable", "Error"))
        ELSE IF var_ty.t = "ConstStr" /\ val.ty.t = "Str"
        THEN Ok(Emit(val.gen, c_name \o " = " \o val.var \o ".ptr;\n"), "", TyVoid)
        ELSE Ok(Emit(val.gen, c_name \o " = " \o val.var \o ";\n"), "", TyVoid)

\* Codegen::codegen_cast_target; target is [kind, ty] with kind "Type" for
\* CastTarget::Type(ty)
CodegenCastTarget(g, expr, target) ==
    IF target.kind = "Type" THEN CodegenCast(g, expr, target.ty) ELSE Err(g)

\* Codegen::codegen_member_compound_assign
CodegenMemberCompoundAssign(g0, obj, field, op, value) ==
    LET o == CodegenExpr(g0, obj)
        val == CodegenExpr(o.gen, value)
        g == val.gen
        struct_ty == IF o.ty.t \in {"Ref", "MutRef"} THEN o.ty.of[1] ELSE o.ty
        access_op == IF o.ty.t \in {"Ref", "MutRef"} THEN "->" ELSE "."
        fields == IF struct_ty.t = "Struct" /\ struct_ty.name \in DOMAIN g.structs
                  THEN g.structs[struct_ty.name] ELSE <<>>
    IN  IF o.ty.t = "Void" THEN Err(Report(g, "VoidMemberAssign", "Error"))
        ELSE IF /\ op = "+="
                /\ \E i \in 1..Len(fields) :
                       /\ fields[i].name = field
                       /\ \A j \in 1..(i - 1) : fields[j].name # field
                       /\ fields[i].ty.t = "StdStr"
        THEN Err(Report(g, "UnsupportedFeature", "Error"))
        ELSE Ok(Emit(g, o.var \o access_op \o field \o " " \o op \o " " \o val.var \o ";\n"),
                "", TyVoid)

\* ir.finalize(): the emitted C text
IrFinalize(g) == g.forward_decls \o g.functions

\* finalize failing on a diagnostic of any severity
FinalizeStrict(g) ==
    IF g.diagnostics # <<>> THEN Err(g) ELSE Ok(g, IrFinalize(g), TyVoid)

\* Codegen::finalize; the returned text is the var of the result
Finalize(g) ==
    IF HasErrors(g) THEN Err(g) ELSE Ok(g, IrFinalize(g), TyVoid)

(***************************************************************************)
(* The code generator as a state machine: a Codegen whose symbol tables    *)
(* hold some of the entries a program can register, and calls of the       *)
(* lowering operations on it.                                              *)
(***************************************************************************)
\* lowering operations called on one Codegen
MaxCalls == 1
\* the fresh-variable counter at the start
MaxCounter == 1

Restrict(f, D) == [k \in D |-> f[k]]

\* the return type a table gives, or Void for every function
Ret(void, ty) == IF void THEN TyVoid ELSE ty

\* user_functions: m, S_m, M_f may be registered; h always is
UserFunctions(void) ==
    [n \in {"m", "S_m", "M_f", "h"} |->
        CASE n = "m" -> Sig(<<TyStruct("S")>>, Ret(void, TyI64))
          [] n = "S_m" -> Sig(<<TyStruct("S")>>, Ret(void, TyStr(TyI64)))
          [] n = "M_f" -> Sig(<<TyConstStr>>, Ret(void, TyI64))
          [] n = "h" -> Sig(<<TyStr(TyI64), TyI32>>, Ret(void, TyI32))]

\* extern_functions: m, M_f may be registered
ExternFunctions(void) ==
    [n \in {"m", "M_f"} |->
        CASE n = "m" -> Sig(<<TyStruct("S")>>, Ret(void, TyF64))
          [] n = "M_f" -> Sig(<<TyPtr(TyConst(TyChar)), TyConstStr>>, Ret(void, TyF64))]

\* impl_methods: (S, m) may be registered, as an instance or as a static method
ImplMethods(void, is_instance) ==
    [k \in {<<"S", "m">>} |-> Sig3(<<>>, Ret(void, TyBool), is_instance)]

\* module_functions: (M, f) may be registered
ModuleFunctions(void) ==
    [k \in {<<"M", "f">>} |-> Sig3(<<TyConstStr>>, Ret(void, TyBool), TRUE)]

\* structs: name -> fields (name, type)
Field(name, ty) == [name |-> name, ty |-> ty]
Structs ==
    [n \in {"Point", "S", "sizeof"} |->
        CASE n = "Point" -> <<Field("x", TyI32), Field("y", TyI32)>>
          [] n = "S" -> <<Field("a", TyI64), Field("b", TyF64), Field("c", TyBool),
                          Field("d", TyStr(TyI64)), Field("e", TyConstStr),
                          Field("f", TyStruct("Point"))>>
          [] n = "sizeof" -> <<>>]

\* vars: name -> (C name, type)
Vars ==
    [n \in {"xs", "ss", "fixed", "s", "n", "v"} |->
        CASE n = "xs" -> Atom("xs", TyArray(TyI32, <<>>))
          [] n = "ss" -> Atom("ss", TyArray(TyStr(TyI64), <<>>))
          [] n = "fixed" -> Atom("fixed", TyArray(TyI32, <<"4">>))
          [] n = "s" -> Atom("s", TyStr(TyI64))
          [] n = "n" -> Atom("n", TyI32)
          [] n = "v" -> Atom("v", TyVoid)]

\* Codegen with empty buffers over the given tables
NewCodegen(user_functions, extern_functions, impl_methods, module_functions, counter) ==
    [body |-> "", counter |-> counter, diagnostics |-> <<>>,
     functions |-> "", forward_decls |-> "", module_init_functions |-> <<>>,
     user_functions |-> user_functions, extern_functions |-> extern_functions,
     impl_methods |-> impl_methods, module_functions |-> module_functions,
     structs |-> Structs, vars |-> Vars, linked_libraries |-> <<"foo", "S">>]

InitGen ==
    /\ tokens = <<>>
    /\ pos = 0
    /\ diags = <<>>
    /\ pc = "gen"
    /\ prog = EmptyProgram
    /\ ctx = NewImportContext
    /\ undefined = <<>>
    /\ last = [op |-> "new", calls |-> 0]
    /\ \E void \in BOOLEAN, is_instance \in BOOLEAN, counter \in 0..MaxCounter,
          user \in SUBSET {"m", "S_m", "M_f"}, ext \in SUBSET {"m", "M_f"},
          impl \in SUBSET {<<"S", "m">>}, modf \in SUBSET {<<"M", "f">>} :
           gen = NewCodegen(Restrict(UserFunctions(void), user \cup {"h"}),
                            Restrict(ExternFunctions(void), ext),
                            Restrict(ImplMethods(void, is_instance), impl),
                            Restrict(ModuleFunctions(void), modf), counter)

\* an operation called with args has returned r
Lowered(r, op, args) ==
    /\ gen' = r.gen
    /\ last' = [op |-> op, calls |-> last.calls + 1, args |-> args, before |-> gen,
                ok |-> r.ok, var |-> r.var, ty |-> r.ty]
    /\ UNCHANGED <<tokens, pos, diags, pc, prog, ctx, undefined>>

CanLower == pc = "gen" /\ last.calls < MaxCalls

\* receivers, methods and argument lists of the calls
Receivers ==
    {Atom("s", TyStruct("S")), Atom("r", TyRef(TyStruct("S"))),
     Atom("q", TyMutRef(TyStruct("S"))), Atom("n", TyI32)}
ArgLists ==
    {<<>>, <<Atom("a", TyStr(TyI64))>>, <<Atom("7", TyI32), Atom("a", TyStr(TyI64))>>}

\* self.codegen_method_call(obj, method, args, body, loc)
MethodCall ==
    /\ CanLower
    /\ \E obj \in Receivers, args \in ArgLists :
           Lowered(CodegenMethodCall(gen, obj, "m", args), "method_call",
                   [obj |-> obj, method |-> "m", args |-> args])

\* self.codegen_module_call(module, func, args, body, loc)
ModuleCall ==
    /\ CanLower
    /\ \E args \in ArgLists :
           Lowered(CodegenModuleCall(gen, "M", "f", args), "module_call",
                   [module |-> "M", func |-> "f", args |-> args])

\* self.codegen_static_method(type_name, method, args, body, loc)
StaticMethod ==
    /\ CanLower
    /\ \E method \in {"new", "m"}, args \in ArgLists :
           Lowered(CodegenStaticMethod(gen, "S", method, args), "static_method",
                   [type_name |-> "S", method |-> method, args |-> args])

\* self.codegen_tuple(elements, body)
Tuple ==
    /\ CanLower
    /\ \E elements \in ArgLists :
           Lowered(CodegenTuple(gen, elements), "tuple", [elements |-> elements])

\* self.codegen_make_panic(expr, body)
MakePanic ==
    /\ CanLower
    /\ Lowered(CodegenMakePanic(gen, Atom("msg", TyConstStr)), "make_panic",
               [expr |-> Atom("msg", TyConstStr)])

\* self.codegen_cast(expr, target_ty, body, loc)
Cast ==
    /\ CanLower
    /\ \E expr \in {Atom("p", TyPtr(TyI32)), Atom("n", TyI32)},
          target_ty \in {TyI64, TyPtr(TyChar)} :
           Lowered(CodegenCast(gen, expr, target_ty), "cast",
                   [expr |-> expr, target_ty |-> target_ty])

\* self.codegen_member_access(obj, field, body)
MemberAccess ==
    /\ CanLower
    /\ \E obj \in Receivers \cup {Atom("p", TyPtr(TyStruct("S")))}, field \in {"d", "zz"} :
           Lowered(CodegenMemberAccess(gen, obj, field), "member_access",
                   [obj |-> obj, field |-> field])

\* self.codegen_call_stmt(func, args, body, loc)
CallStmt ==
    /\ CanLower
    /\ \E func \in {"M_f", "h", "g"}, args \in ArgLists :
           Lowered(CodegenCallStmt(gen, func, args), "call_stmt",
                   [func |-> func, args |-> args])

\* self.codegen_call_expr(func, args, body, loc), for the callees that do not
\* reach codegen_std_call
CallExpr ==
    /\ CanLower
    /\ \E func \in {"Point", "S", "sizeof", "foo", "as_bytes", "as_ptr", "as_mut_ptr",
                    "size_of"},
          args \in ArgLists :
           Lowered(CodegenCallExpr(gen, func, args), "call_expr",
                   [func |-> func, args |-> args])

\* the right-hand sides of the compound assignments
Values ==
    {Atom("e", TyI32), Atom("w", TyI64), Atom("ys", TyArray(TyI32, <<>>)),
     Atom("ws", TyArray(TyI64, <<>>)), Atom("t", TyStr(TyI64)), Atom("c", TyConstStr),
     Atom("d", TyStdStr), Atom("u", TyVoid),
     TupleExpr(<<Atom("1", TyI32), Atom("2", TyI32)>>)}

\* self.codegen_compound_assign(name, op, value, body, loc)
CompoundAssign ==
    /\ CanLower
    /\ \E name \in DOMAIN Vars \cup {"zz"}, op \in {"+=", "-="}, value \in Values :
           Lowered(CodegenCompoundAssign(gen, name, op, value), "compound_assign",
                   [name |-> name, op |-> op, value |-> value])

\* self.codegen_assign(name, value, body, loc)
Assign ==
    /\ CanLower
    /\ \E name \in {"n", "s", "zz"},
          value \in {Atom("e", TyI32), Atom("t", TyStr(TyI64)),
                     TupleExpr(<<Atom("1", TyI32), Atom("2", TyI32)>>)} :
           Lowered(CodegenAssign(gen, name, value), "assign", [name |-> name, value |-> value])

\* self.codegen_cast_target(expr, target, body, loc)
CastTarget ==
    /\ CanLower
    /\ \E expr \in {Atom("p", TyPtr(TyI32)), Atom("n", TyI32)},
          target \in {[kind |-> "Type", ty |-> TyI64], [kind |-> "Other", ty |-> TyVoid]} :
           Lowered(CodegenCastTarget(gen, expr, target), "cast_target",
                   [expr |-> expr, target |-> target])

\* self.codegen_member_compound_assign(obj, field, op, value, body, loc)
MemberCompoundAssign ==
    /\ CanLower
    /\ \E obj \in Receivers \cup {Atom("v", TyVoid)}, field \in {"a", "d"}, op \in {"+=", "-="} :
           Lowered(CodegenMemberCompoundAssign(gen, obj, field, op, Atom("e", TyI32)),
                   "member_compound_assign", [obj |-> obj, field |-> field, op |-> op])

\* self.finalize(), which consumes the generator
FinalizeCall ==
    /\ pc = "gen"
    /\ pc' = "final"
    /\ last' = [op |-> "finalize", calls |-> last.calls, prev |-> last,
                ok |-> Finalize(gen).ok, var |-> Finalize(gen).var]
    /\ UNCHANGED <<gen, tokens, pos, diags, prog, ctx, undefined>>

NextGen ==
    \/ MethodCall \/ ModuleCall \/ StaticMethod \/ Tuple \/ MakePanic \/ Cast
    \/ MemberAccess \/ CallStmt \/ CallExpr \/ CompoundAssign
    \/ Assign \/ CastTarget \/ MemberCompoundAssign \/ FinalizeCall

SpecGen == InitGen /\ [][NextGen]_vars

\* C13: obj.m(args) on a receiver of type S or &S calls the impl method S_m
\* when (S, m) is registered, else the free function m, else the user
\* function S_m, else m with result type Int32; the receiver is the first
\* argument, written &obj exactly when it is a by-value struct and (S, m) is
\* a registered impl method.
C13_MethodResolution ==
    (last.op = "method_call" /\ StructOf(last.args.obj.ty) # <<>>) =>
        LET obj == last.args.obj
            m == last.args.method
            S == StructOf(obj.ty)[1]
            g == last.before
            callee == IF <<S, m>> \in DOMAIN g.impl_methods THEN S \o "_" \o m
                      ELSE IF m \in DOMAIN g.user_functions \cup DOMAIN g.extern_functions THEN m
                      ELSE IF (S \o "_" \o m) \in DOMAIN g.user_functions THEN S \o "_" \o m
                      ELSE m
            ret == IF <<S, m>> \in DOMAIN g.impl_methods THEN g.impl_methods[<<S, m>>].ret
                   ELSE IF m \in DOMAIN g.user_functions THEN g.user_functions[m].ret
                   ELSE IF m \in DOMAIN g.extern_functions THEN g.extern_functions[m].ret
                   ELSE IF (S \o "_" \o m) \in DOMAIN g.user_functions
                        THEN g.user_functions[S \o "_" \o m].ret
                   ELSE TyI32
            receiver == IF obj.ty.t = "Struct" /\ <<S, m>> \in DOMAIN g.impl_methods
                        THEN "&" \o obj.var ELSE obj.var
            arg_vars == <<receiver>> \o ArgVars(last.args.args)
        IN  /\ last.ok
            /\ last.ty = ret
            /\ gen.body = g.body \o
                   (IF ret = TyVoid THEN CallText(callee, arg_vars)
                    ELSE DeclText(CType(ret), FreshVar(g), callee, arg_vars))

\* the text the last operation appended to the body
Appended == SubSeq(gen.body, Len(last.before.body) + 1, Len(gen.body))

\* C14: an expression-lowering operation that returns Ok((v, ty)) returns a
\* non-empty fresh variable name v, declared by a statement the operation
\* appended to the body, also when the lowered call returns Void.
C14_FreshResult ==
    (/\ last.op \in {"tuple", "method_call", "module_call", "static_method", "cast",
                     "member_access", "make_panic"}
     /\ last.ok)
    => /\ last.var # ""
       /\ last.var = FreshVar(last.before)
       /\ gen.counter > last.before.counter
       /\ Contains(Appended, " " \o last.var \o " = ")

\* C15: for a function f of module M registered by codegen_module (under
\* M_f in user_functions and under (M, f) in module_functions), the call
\* written M.f(args) appends the same C text as the call written M_f(args).
C15_ModuleDispatch ==
    (/\ last.op = "module_call"
     /\ "M_f" \in DOMAIN last.before.user_functions
     /\ <<"M", "f">> \in DOMAIN last.before.module_functions)
    => gen.body = CodegenCallStmt(last.before, "M_f", last.args.args).gen.body

\* C19: codegen_call_stmt passes an argument as arg.ptr exactly when it is a
\* Str slice and the declared parameter at its position is ConstStr or a
\* pointer to const char; every other argument is passed unchanged.
C19_CallBoundary ==
    last.op = "call_stmt" =>
        LET g == last.before
            func == last.args.func
            args == last.args.args
            declared == IF func \in DOMAIN g.extern_functions THEN g.extern_functions[func].params
                        ELSE IF func \in DOMAIN g.user_functions THEN g.user_functions[func].params
                        ELSE <<>>
            passed == [i \in 1..Len(args) |->
                          IF /\ args[i].ty.t = "Str"
                             /\ i <= Len(declared)
                             /\ declared[i] \in {TyConstStr, TyPtr(TyConst(TyChar))}
                          THEN args[i].var \o ".ptr" ELSE args[i].var]
        IN  /\ last.ok
            /\ Appended = CallText(func, passed)

\* C20: a call of a known struct S without arguments emits
\* `S tN = S_new(d1, ..., dk);` with one default per declared field, in
\* declaration order, and has type Struct{S}, also when S names an imported
\* library or an intrinsic.
C20_StructDefaults ==
    (/\ last.op = "call_expr"
     /\ last.args.func \in DOMAIN last.before.structs
     /\ last.args.args = <<>>)
    => LET S == last.args.func
           fields == last.before.structs[S]
           defaults == [i \in 1..Len(fields) |->
                           CASE IsInt(fields[i].ty) -> "0"
                             [] IsFloat(fields[i].ty) -> "0.0"
                             [] fields[i].ty = TyBool -> "false"
                             [] fields[i].ty.t = "Str" -> "((Slice_char){ .ptr = \"\", .len = 0 })"
                             [] fields[i].ty = TyConstStr -> "\"\""
                             [] OTHER -> "{ 0 }"]
       IN  /\ last.ok
           /\ last.ty = TyStruct(S)
           /\ last.var = FreshVar(last.before)
           /\ Appended = S \o " " \o last.var \o " = " \o S \o "_new(" \o Join(defaults) \o ");\n"
           /\ gen.diagnostics = last.before.diagnostics

\* S() has been lowered, S being a struct with a field of every kind and the
\* name of a linked library
C20_Witness ==
    /\ last.op = "call_expr" /\ last.args.func = "S" /\ last.args.args = <<>>
    /\ \E i \in 1..Len(gen.linked_libraries) : gen.linked_libraries[i] = "S"
    /\ last.ok
    /\ Contains(gen.body, "S_new(0, 0.0, false, ((Slice_char){ .ptr = \"\", .len = 0 }), \"\", { 0 });")

\* C16: codegen_module_call lowers M.f(args) to a call of M_f whose return
\* type comes from user_functions[M_f], else extern_functions[M_f], else
\* module_functions[(M, f)]; when none exists it records exactly one
\* UndefinedModuleFunction warning and no error, the result is Void, the
\* call is still emitted and the lowering returns Ok.
C16_ModuleLookup ==
    last.op = "module_call" =>
        LET g == last.before
            name == last.args.module \o "_" \o last.args.func
            key == <<last.args.module, last.args.func>>
            call == name \o "(" \o Join(ArgVars(last.args.args)) \o ");\n"
        IN  /\ last.ok
            /\ Contains(Appended, call)
            /\ IF name \in DOMAIN g.user_functions
               THEN last.ty = g.user_functions[name].ret /\ gen.diagnostics = g.diagnostics
               ELSE IF name \in DOMAIN g.extern_functions
               THEN last.ty = g.extern_functions[name].ret /\ gen.diagnostics = g.diagnostics
               ELSE IF key \in DOMAIN g.module_functions
               THEN last.ty = g.module_functions[key].ret /\ gen.diagnostics = g.diagnostics
               ELSE /\ last.ty = TyVoid
                    /\ gen.diagnostics
                         = Append(g.diagnostics,
                                  [kind |-> "UndefinedModuleFunction", severity |-> "Warning"])
                    /\ HasErrors(gen) = HasErrors(g)

\* M.f(a) has been lowered with M_f in no table: one warning, the call emitted
C16_Witness ==
    /\ last.op = "module_call" /\ Len(last.args.args) = 1
    /\ "M_f" \notin DOMAIN gen.user_functions \cup DOMAIN gen.extern_functions
    /\ <<"M", "f">> \notin DOMAIN gen.module_functions
    /\ Len(gen.diagnostics) = 1 /\ ~HasErrors(gen)
    /\ Contains(gen.body, "M_f(a);\n")

\* C17: codegen_static_method lowers T.new(args) to a call of T_new of type
\* Struct{T} without consulting a table; another method m becomes a call of
\* T_m whose return type comes from impl_methods[(T, m)], else from
\* user_functions[T_m]; when neither exists exactly one UndefinedMethod
\* error is recorded, the lowering returns Err and no call of T_m is emitted.
C17_StaticMethod ==
    last.op = "static_method" =>
        LET g == last.before
            T == last.args.type_name
            m == last.args.method
            name == T \o "_" \o m
            call(c_type) == c_type \o " " \o last.var \o " = " \o name \o "("
                            \o Join(ArgVars(last.args.args)) \o ");\n"
        IN  IF m = "new"
            THEN /\ last.ok /\ last.ty = TyStruct(T)
                 /\ Appended = call(T)
                 /\ gen.diagnostics = g.diagnostics
            ELSE IF <<T, m>> \in DOMAIN g.impl_methods
            THEN /\ last.ok /\ last.ty = g.impl_methods[<<T, m>>].ret
                 /\ Appended = call(CType(last.ty))
                 /\ gen.diagnostics = g.diagnostics
            ELSE IF name \in DOMAIN g.user_functions
            THEN /\ last.ok /\ last.ty = g.user_functions[name].ret
                 /\ Appended = call(CType(last.ty))
                 /\ gen.diagnostics = g.diagnostics
            ELSE /\ ~last.ok
                 /\ gen.diagnostics
                      = Append(g.diagnostics, [kind |-> "UndefinedMethod", severity |-> "Error"])
                 /\ ~Contains(Appended, name \o "(")

\* S.m(a) has been lowered with neither impl_methods[(S, m)] nor
\* user_functions[S_m]: one error, Err, nothing emitted
C17_Witness ==
    /\ last.op = "static_method" /\ last.args.method = "m" /\ Len(last.args.args) = 1
    /\ <<"S", "m">> \notin DOMAIN gen.impl_methods
    /\ "S_m" \notin DOMAIN gen.user_functions
    /\ ~last.ok
    /\ gen.body = ""

\* C18: codegen_compound_assign of a variable or literal to a defined
\* variable emits, for `+=`, a
\* vix_extend call when target and value are slices of compatible element
\* types, a vix_push call when the target is a slice and the value is
\* compatible with its element type, vix_str_append_inplace(&target, value)
\* when both are string slices; every other combination of operand types
\* and every other operator becomes the literal statement `target op value;`.
C18_CompoundAssign ==
    (/\ last.op = "compound_assign" /\ last.args.name \in DOMAIN last.before.vars
     /\ "tuple" \notin DOMAIN last.args.value) =>
        LET target == last.before.vars[last.args.name]
            value == last.args.value
            IsSlice(ty) == ty.t = "Array" /\ ty.size = <<>>
            plus == last.args.op = "+="
        IN  /\ last.ok
            /\ Appended =
                 IF /\ plus /\ IsSlice(target.ty) /\ IsSlice(value.ty)
                    /\ TypesCompatible(target.ty.of[1], value.ty.of[1])
                 THEN "vix_extend(" \o target.var \o ", " \o value.var \o ");\n"
                 ELSE IF plus /\ IsSlice(target.ty) /\ TypesCompatible(target.ty.of[1], value.ty)
                 THEN "vix_push(" \o target.var \o ", " \o value.var \o ");\n"
                 ELSE IF plus /\ target.ty.t = "Str" /\ value.ty.t = "Str"
                 THEN "vix_str_append_inplace(&" \o target.var \o ", " \o value.var \o ");\n"
                 ELSE target.var \o " " \o last.args.op \o " " \o value.var \o ";\n"

\* Stmt::Function, Stmt::ModuleDef and the other statements of a module body
ModFn(name, ret, is_public) ==
    [kind |-> "Function", name |-> name, ret |-> ret, is_public |-> is_public,
     body |-> <<>>, text |-> ""]
ModDef(name, body) ==
    [kind |-> "ModuleDef", name |-> name, ret |-> TyVoid, is_public |-> TRUE,
     body |-> body, text |-> ""]
ModStmt(text) ==
    [kind |-> "Stmt", name |-> "", ret |-> TyVoid, is_public |-> TRUE,
     body |-> <<>>, text |-> text]

\* HashMap::insert
Insert(map, key, value) ==
    [k \in DOMAIN map \cup {key} |-> IF k = key THEN value ELSE map[k]]

\* Codegen::codegen_function: the declaration (forward) or the definition of f
CodegenFunction(g, f, forward) ==
    IF forward
    THEN [g EXCEPT !.forward_decls = @ \o CType(f.ret) \o " " \o f.name \o "();\n"]
    ELSE [g EXCEPT !.functions = @ \o CType(f.ret) \o " " \o f.name \o "() {\n}\n"]

RECURSIVE CodegenModulePostOrder(_, _), ModuleBodyPostOrder(_, _, _, _)
\* codegen_module registering the init function after the body was processed
CodegenModulePostOrder(g, module) ==
    LET init_func_name == module.name \o "_init"
        g1 == [g EXCEPT !.forward_decls = @ \o "void " \o init_func_name \o "();\n"]
        r == ModuleBodyPostOrder(g1, module.name, module.body, "")
        g2 == [r.gen EXCEPT !.module_init_functions = Append(@, init_func_name)]
    IN  [g2 EXCEPT !.functions = @ \o "void " \o init_func_name \o "() {\n"
                                   \o r.init_body \o "\n}\n"]
ModuleBodyPostOrder(g, name, body, init_body) ==
    IF body = <<>> THEN [gen |-> g, init_body |-> init_body]
    ELSE LET stmt == Head(body)
         IN  IF stmt.kind = "Function"
             THEN LET full_func_name == name \o "_" \o stmt.name
                      g1 == [g EXCEPT
                               !.user_functions = Insert(@, full_func_name, Sig(<<>>, stmt.ret)),
                               !.module_functions =
                                   Insert(@, <<name, stmt.name>>,
                                          Sig3(<<>>, stmt.ret, stmt.is_public))]
                  IN  ModuleBodyPostOrder(CodegenFunction(CodegenFunction(g1, stmt, TRUE),
                                                          stmt, FALSE),
                                          name, Tail(body), init_body)
             ELSE IF stmt.kind = "ModuleDef"
             THEN ModuleBodyPostOrder(CodegenModulePostOrder(g, stmt), name, Tail(body),
                                      init_body)
             ELSE ModuleBodyPostOrder(g, name, Tail(body), init_body \o stmt.text)

RECURSIVE CodegenModule(_, _), ModuleBody(_, _, _, _)
\* Codegen::codegen_module
CodegenModule(g, module) ==
    LET init_func_name == module.name \o "_init"
        g1 == [g EXCEPT !.module_init_functions = Append(@, init_func_name),
                        !.forward_decls = @ \o "void " \o init_func_name \o "();\n"]
        r == ModuleBody(g1, module.name, module.body, "")
    IN  [r.gen EXCEPT !.functions = @ \o "void " \o init_func_name \o "() {\n"
                                      \o r.init_body \o "\n}\n"]
\* codegen_module: for stmt in body, with the init_body collected so far
ModuleBody(g, name, body, init_body) ==
    IF body = <<>> THEN [gen |-> g, init_body |-> init_body]
    ELSE LET stmt == Head(body)
         IN  IF stmt.kind = "Function"
             THEN LET full_func_name == name \o "_" \o stmt.name
                      g1 == [g EXCEPT
                               !.user_functions = Insert(@, full_func_name, Sig(<<>>, stmt.ret)),
                               !.module_functions =
                                   Insert(@, <<name, stmt.name>>,
                                          Sig3(<<>>, stmt.ret, stmt.is_public))]
                  IN  ModuleBody(CodegenFunction(CodegenFunction(g1, stmt, TRUE), stmt, FALSE),
                                 name, Tail(body), init_body)
             ELSE IF stmt.kind = "ModuleDef"
             THEN ModuleBody(CodegenModule(g, stmt), name, Tail(body), init_body)
             ELSE ModuleBody(g, name, Tail(body), init_body \o stmt.text)

\* the number of codegen_module calls of one run
MaxModules == 3

\* the module definitions given to codegen_module
ModuleDefs ==
    {ModDef("A", <<ModFn("f", TyI32, TRUE), ModStmt("x = 1;\n")>>),
     ModDef("B", <<>>),
     ModDef("P", <<ModDef("A", <<ModFn("f", TyI64, FALSE)>>), ModStmt("y = 2;\n"),
                   ModDef("C", <<ModDef("D", <<>>)>>)>>),
     ModDef("R", <<ModDef("P", <<ModDef("A", <<ModFn("f", TyI32, TRUE)>>)>>),
                   ModDef("Q", <<ModDef("A", <<ModFn("f", TyI64, TRUE)>>)>>)>>),
     ModDef("A_b", <<ModFn("c", TyBool, TRUE), ModDef("E", <<>>)>>)}

InitMod ==
    /\ tokens = <<>>
    /\ pos = 0
    /\ diags = <<>>
    /\ pc = "mod"
    /\ prog = EmptyProgram
    /\ ctx = NewImportContext
    /\ undefined = <<>>
    /\ last = [op |-> "new", calls |-> 0]
    /\ \E user \in SUBSET {"h"} :
           gen = NewCodegen(Restrict(UserFunctions(FALSE), user), <<>>, <<>>, <<>>, 0)

\* self.codegen_module(module)
Module ==
    /\ pc = "mod"
    /\ last.calls < MaxModules
    /\ \E module \in ModuleDefs :
           Lowered(Ok(CodegenModule(gen, module), "", TyVoid), "module", module)

NextMod == Module

SpecMod == InitMod /\ [][NextMod]_vars

RECURSIVE InitNames(_)
\* the init names of the module definitions in a statement list, each
\* definition before the definitions nested in it, siblings in source order
InitNames(stmts) ==
    IF stmts = <<>> THEN <<>>
    ELSE IF Head(stmts).kind = "ModuleDef"
    THEN <<Head(stmts).name \o "_init">> \o InitNames(Head(stmts).body) \o InitNames(Tail(stmts))
    ELSE InitNames(Tail(stmts))

\* C21: a codegen_module call appends to module_init_functions one
\* <Module>_init entry per ModuleDef it processes, nested modules included,
\* a parent before its nested modules and siblings in source order; the
\* entries already present are kept in place.
C21_InitOrder ==
    last.op = "module" =>
        gen.module_init_functions
            = last.before.module_init_functions \o InitNames(<<last.args>>)

\* module P with the nested modules A, C and D in C has been processed after
\* another module
C21_Witness ==
    /\ last.op = "module" /\ last.args.name = "P" /\ last.calls = 2
    /\ Len(gen.module_init_functions) >= 5
    /\ SubSeq(gen.module_init_functions, Len(gen.module_init_functions) - 3,
              Len(gen.module_init_functions)) = <<"P_init", "A_init", "C_init", "D_init">>


RECURSIVE FunctionKeys(_, _)
\* the user_functions keys of the functions in a statement list of module name
FunctionKeys(name, stmts) ==
    IF stmts = <<>> THEN <<>>
    ELSE IF Head(stmts).kind = "Function"
    THEN <<name \o "_" \o Head(stmts).name>> \o FunctionKeys(name, Tail(stmts))
    ELSE IF Head(stmts).kind = "ModuleDef"
    THEN FunctionKeys(Head(stmts).name, Head(stmts).body) \o FunctionKeys(name, Tail(stmts))
    ELSE FunctionKeys(name, Tail(stmts))

\* the number of places where sub occurs in text
Occurrences(text, sub) ==
    Cardinality({i \in 1..(Len(text) - Len(sub) + 1) : SubSeq(text, i, i + Len(sub) - 1) = sub})

\* C29: after a codegen_module call on a generator without modules, no init
\* name occurs twice in module_init_functions, no `void X_init();`
\* declaration and no `void X_init()` definition occurs twice, and no
\* user_functions key Module_func was registered for two functions.
C29_NoDuplicates ==
    (last.op = "module" /\ last.calls = 1) =>
        LET inits == gen.module_init_functions
            keys == FunctionKeys("", <<last.args>>)
        IN  /\ \A i, j \in 1..Len(inits) : inits[i] = inits[j] => i = j
            /\ \A i \in 1..Len(inits) :
                   /\ Occurrences(gen.forward_decls, "void " \o inits[i] \o "();") = 1
                   /\ Occurrences(gen.functions, "void " \o inits[i] \o "() {") = 1
            /\ \A i, j \in 1..Len(keys) : keys[i] = keys[j] => i = j

\* Codegen::codegen_str_concat_zero_alloc
CodegenStrConcatZeroAlloc(g, s1, s2) ==
    LET g1 == Emit(EnsureZeroAllocStringOps(g), "vix_arena_init(1048576);\n")
        tmp == FreshVar(g1)
    IN  Ok(Emit(BumpVar(g1), "Slice_char " \o tmp \o " = vix_str_concat_arena(" \o s1 \o ", "
                             \o s2 \o ");\n"),
           tmp, TyStr(TyI64))

\* the number of helper calls of one run
MaxHelperCalls == 3

\* the generator after the code generation that preceded the helper calls:
\* nothing, or one module whose init function is in the functions buffer
InitHelp ==
    /\ tokens = <<>>
    /\ pos = 0
    /\ diags = <<>>
    /\ pc = "help"
    /\ prog = EmptyProgram
    /\ ctx = NewImportContext
    /\ undefined = <<>>
    /\ last = [op |-> "new", calls |-> 0]
    /\ \E name \in {"", "B", "vix_push", "vix_extender"} :
           gen = IF name = "" THEN NewCodegen(<<>>, <<>>, <<>>, <<>>, 0)
                 ELSE CodegenModule(NewCodegen(<<>>, <<>>, <<>>, <<>>, 0), ModDef(name, <<>>))

CanHelp == pc = "help" /\ last.calls < MaxHelperCalls

\* self.codegen_push_unified(arr, elem, body)
PushUnified ==
    CanHelp /\ Lowered(Ok(CodegenPushUnified(gen, "xs", "5"), "", TyVoid), "push_unified", <<>>)

\* self.codegen_extend_unified(dest, src, body)
ExtendUnified ==
    CanHelp /\ Lowered(Ok(CodegenExtendUnified(gen, "xs", "ys"), "", TyVoid),
                       "extend_unified", <<>>)

\* self.codegen_str_append_zero_alloc(dest, src, body)
StrAppendZeroAlloc ==
    CanHelp /\ Lowered(Ok(CodegenStrAppendZeroAlloc(gen, "s", "t"), "", TyVoid),
                       "str_append_zero_alloc", <<>>)

\* self.codegen_str_concat_zero_alloc(s1, s2, body)
StrConcatZeroAlloc ==
    CanHelp /\ Lowered(CodegenStrConcatZeroAlloc(gen, "s", "t"), "str_concat_zero_alloc", <<>>)

\* self.ensure_unified_push() / ensure_unified_extend() / ensure_zero_alloc_string_ops()
EnsureHelper ==
    /\ CanHelp
    /\ \/ Lowered(Ok(EnsureUnifiedPush(gen), "", TyVoid), "ensure_unified_push", <<>>)
       \/ Lowered(Ok(EnsureUnifiedExtend(gen), "", TyVoid), "ensure_unified_extend", <<>>)
       \/ Lowered(Ok(EnsureZeroAllocStringOps(gen), "", TyVoid),
                  "ensure_zero_alloc_string_ops", <<>>)

NextHelp ==
    \/ PushUnified \/ ExtendUnified \/ StrAppendZeroAlloc \/ StrConcatZeroAlloc
    \/ EnsureHelper

SpecHelp == InitHelp /\ [][NextHelp]_vars

\* C22: after a helper call the functions buffer holds the definition of the
\* helper that was used exactly once, and the definition of no helper more
\* than once, whatever the buffer held before.
C22_HelperOnce ==
    LET push == Occurrences(gen.functions, "#define vix_push(")
        extend == Occurrences(gen.functions, "#define vix_extend(")
        append == Occurrences(gen.functions, "void vix_str_append_inplace(")
    IN  /\ push <= 1 /\ extend <= 1 /\ append <= 1
        /\ last.op \in {"push_unified", "ensure_unified_push"} => push = 1
        /\ last.op \in {"extend_unified", "ensure_unified_extend"} => extend = 1
        /\ last.op \in {"str_append_zero_alloc", "str_concat_zero_alloc",
                        "ensure_zero_alloc_string_ops"} => append = 1

\* the number of codegen_tuple calls of one run
MaxTuples == 3

\* the element lists of the tuples
TupleLists ==
    {<<Atom("1", TyI32)>>, <<Atom("1", TyI32), Atom("2", TyI32)>>,
     <<Atom("3", TyI32), Atom("4", TyI32)>>, <<Atom("a", TyStr(TyI64))>>,
     <<Atom("1", TyI32), Atom("2", TyI32), Atom("3", TyI32)>>}

\* the generator before the first tuple: new, or after one module
InitTuple ==
    /\ tokens = <<>>
    /\ pos = 0
    /\ diags = <<>>
    /\ pc = "tuple"
    /\ prog = EmptyProgram
    /\ ctx = NewImportContext
    /\ undefined = <<>>
    /\ last = [op |-> "new", calls |-> 0]
    /\ \E module \in BOOLEAN :
           gen = IF module
                 THEN CodegenModule(NewCodegen(<<>>, <<>>, <<>>, <<>>, 0), ModDef("Tuple_i32", <<>>))
                 ELSE NewCodegen(<<>>, <<>>, <<>>, <<>>, 0)

\* self.codegen_tuple(elements, body), one call of a sequence
TupleSeq ==
    /\ pc = "tuple"
    /\ last.calls < MaxTuples
    /\ \E elements \in TupleLists :
           Lowered(CodegenTuple(gen, elements), "tuple", [elements |-> elements])

NextTuple == TupleSeq

SpecTuple == InitTuple /\ [][NextTuple]_vars

\* the typedef of the tuple of the given elements
TypedefOf(elements) == TupleDefinition(TyTuple([i \in 1..Len(elements) |-> elements[i].ty]))

C24_Finalize ==
    last.op = "finalize" =>
        LET errors == {i \in 1..Len(gen.diagnostics) : gen.diagnostics[i].severity = "Error"}
        IN  /\ last.ok <=> errors = {}
            /\ last.ok => last.var = gen.forward_decls \o gen.functions

\* finalize has succeeded after a module call that recorded the
\* UndefinedModuleFunction warning
C24_Witness ==
    /\ last.op = "finalize" /\ last.ok
    /\ last.prev.op = "module_call"
    /\ gen.diagnostics = <<[kind |-> "UndefinedModuleFunction", severity |-> "Warning"]>>

\* the operations of which C25 and C30 speak
FailingOps ==
    {"assign", "compound_assign", "call_expr", "member_access", "cast_target",
     "static_method", "member_compound_assign"}

\* C25: an operation that returns Err has recorded an error diagnostic
\* before, so that finalize fails afterwards.
C25_ErrHasDiagnostic ==
    /\ (last.op \in FailingOps /\ ~last.ok) =>
           /\ Len(gen.diagnostics) > Len(last.before.diagnostics)
           /\ \E i \in 1..Len(gen.diagnostics) : gen.diagnostics[i].severity = "Error"
    /\ (last.op = "finalize" /\ last.prev.op \in FailingOps /\ ~last.prev.ok) => ~last.ok

\* C30: when codegen_assign or codegen_compound_assign fails with
\* UndefinedVariable, nothing was appended to the body, no helper was added
\* to the functions buffer and no fresh variable was consumed; the error
\* diagnostic is the only effect.
C30_UndefinedVariableNoOutput ==
    (/\ last.op \in {"assign", "compound_assign"}
     /\ ~last.ok
     /\ gen.diagnostics # <<>>
     /\ gen.diagnostics[Len(gen.diagnostics)].kind = "UndefinedVariable")
    => gen = [last.before EXCEPT
                !.diagnostics = Append(@, [kind |-> "UndefinedVariable", severity |-> "Error"])]

(***************************************************************************)
(* The library manager (Library/manager.rs).  The file system and the      *)
(* external compiler are an environment env: env.core tells whether        *)
(* load_core_library succeeds, env.lib[d] what happens to the library      *)
(* whose directory under library/ starts with d.                           *)
(***************************************************************************)
LibDirs == {"core", "net", "fs"}
LibOutcomes == {"ok", "no_dir", "no_package_json", "compiler_failed"}
LibEnvs == [core : BOOLEAN, lib : [LibDirs -> LibOutcomes]]

\* str::to_lowercase on the names of the model
ToLowercase(name) ==
    CASE name = "Core" -> "core" [] name = "Net" -> "net" [] OTHER -> name

\* FootprintPack { name, includes, .. } of an imported library and of core
LibraryPack(name) == [name |-> name, includes |-> <<name \o ".h">>]
CorePack == [name |-> "core", includes |-> <<>>]

\* Result<Vec<FootprintPack>, LibraryError>, with the names that were looked
\* up as directories under library/
LibOk(packs, resolved) == [ok |-> TRUE, packs |-> packs, resolved |-> resolved]
LibErr(resolved) == [ok |-> FALSE, packs |-> <<>>, resolved |-> resolved]

RECURSIVE CompileLoop(_, _, _)
\* compile_all_libraries: for lib_meta in library_metadata
CompileLoop(library_metadata, env, footprint_packs) ==
    IF library_metadata = <<>> THEN LibOk(footprint_packs, <<>>)
    ELSE IF env.lib[Head(library_metadata)] = "compiler_failed" THEN LibErr(<<>>)
    ELSE CompileLoop(Tail(library_metadata), env,
                     Append(footprint_packs, LibraryPack(Head(library_metadata))))

\* LibraryManager::compile_all_libraries
CompileAllLibraries(library_metadata, env) ==
    IF ~env.core THEN LibErr(<<>>)
    ELSE CompileLoop(library_metadata, env, <<CorePack>>)

RECURSIVE ProcessLoop(_, _, _, _, _)
\* process_imports_from_decls / process_all_imports: for lib_name in
\* required_libs, in the order the HashSet yields them
ProcessLoop(order, env, footprint_packs, resolved, lowercase) ==
    IF order = <<>> THEN LibOk(footprint_packs, resolved)
    ELSE LET lib_name == Head(order)
             outcome == IF lib_name \in LibDirs THEN env.lib[lib_name] ELSE "no_dir"
             name == IF lowercase THEN ToLowercase(lib_name) ELSE lib_name
         IN  IF outcome # "ok" THEN LibErr(Append(resolved, lib_name))
             ELSE ProcessLoop(Tail(order), env, Append(footprint_packs, LibraryPack(name)),
                              Append(resolved, lib_name), lowercase)

\* the required_libs of process_imports_from_decls
RequiredFromDecls(imports) ==
    {ToLowercase(imports[i]) : i \in {j \in 1..Len(imports) : imports[j] # "core"}}

\* LibraryManager::process_imports_from_decls; order enumerates required_libs
ProcessImportsFromDecls(imports, order, env) ==
    IF ~env.core THEN LibErr(<<>>)
    ELSE ProcessLoop(order, env, <<CorePack>>, <<>>, TRUE)

\* the required_libs of process_all_imports
RequiredAllImports(imports) == {imports[i] : i \in 1..Len(imports)}

\* LibraryManager::process_all_imports; order enumerates required_libs
ProcessAllImports(imports, order, env) ==
    ProcessLoop(order, env, <<>>, <<>>, FALSE)

\* the sequences that enumerate a set once
Orders(set) ==
    {order \in [1..Cardinality(set) -> set] : \A i, j \in 1..Cardinality(set) :
                                                    order[i] = order[j] => i = j}

\* the number of imports of one program
MaxLibImports == 2

\* the import lists of a program
LibImports == SeqsUpTo({"core", "Core", "net", "fs"}, MaxLibImports)

InitLib ==
    /\ tokens = <<>>
    /\ pos = 0
    /\ diags = <<>>
    /\ pc = "lib"
    /\ prog = EmptyProgram
    /\ ctx = NewImportContext
    /\ undefined = <<>>
    /\ gen = <<>>
    /\ last = [op |-> "new"]

\* an entry point has returned r
LibReturned(r, op, required, env) ==
    /\ pc' = "libdone"
    /\ last' = [op |-> op, required |-> required, env |-> env, ok |-> r.ok,
                packs |-> r.packs, resolved |-> r.resolved]
    /\ UNCHANGED <<gen, tokens, pos, diags, prog, ctx, undefined>>

\* LibraryManager::compile_all_libraries(library_metadata, target_os)
CompileAll ==
    /\ pc = "lib"
    /\ \E imports \in LibImports, env \in LibEnvs :
               \E library_metadata \in Orders(RequiredFromDecls(imports)) :
                   LibReturned(CompileAllLibraries(library_metadata, env), "compile_all_libraries",
                               RequiredFromDecls(imports), env)

\* LibraryManager::process_imports_from_decls(import_decls, target_os)
FromDecls ==
    /\ pc = "lib"
    /\ \E imports \in LibImports, env \in LibEnvs :
               \E order \in Orders(RequiredFromDecls(imports)) :
                   LibReturned(ProcessImportsFromDecls(imports, order, env),
                               "process_imports_from_decls", RequiredFromDecls(imports), env)

\* LibraryManager::process_all_imports(source_files, target_os)
AllImports ==
    /\ pc = "lib"
    /\ \E imports \in LibImports, env \in LibEnvs :
               \E order \in Orders(RequiredAllImports(imports)) :
                   LibReturned(ProcessAllImports(imports, order, env), "process_all_imports",
                               RequiredAllImports(imports), env)

NextLib == CompileAll \/ FromDecls \/ AllImports

SpecLib == InitLib /\ [][NextLib]_vars

\* C26: when core loads and the compilation of one imported library fails,
\* the entry point still produces the FootprintPack of every required
\* library that can be compiled.
C26_FailureIsolated ==
    (pc = "libdone" /\ last.env.core) =>
        \A lib \in last.required :
            (lib \in LibDirs /\ last.env.lib[lib] = "ok")
            => \E i \in 1..Len(last.packs) : last.packs[i].name = lib

\* C27: a successful entry point returns the core pack first, with an empty
\* include list, and has not looked core up as an ordinary library
\* directory.
C27_CoreFirst ==
    (pc = "libdone" /\ last.ok) =>
        /\ last.packs # <<>>
        /\ last.packs[1] = [name |-> "core", includes |-> <<>>]
        /\ \A i \in 1..Len(last.resolved) : last.resolved[i] # "core"

(***************************************************************************)
(* if statements inside a function body                                    *)
(***************************************************************************)
\* statements of a branch of an if (the else block as well)
MaxBranch == 1
\* statements after the if, up to the function's own `end`
MaxIfTail == 1

\* the statements used inside and after an if: tokens and the Stmt they are
IfStmtSources ==
    [call   |-> [src |-> CallTokens("baz"), ast |-> StCall("baz", <<>>)],
     assign |-> [src |-> <<Id("x"), Tk("Equals")>> \o CallTokens("g"),
                 ast |-> StAssign("x", ExCall("g", <<>>))]]

\* the condition (the pattern of an if-let)
IfConds ==
    {[src |-> <<Id("c")>>, ast |-> ExVar("c")],
     [src |-> CallTokens("g"), ast |-> ExCall("g", <<>>)]}

\* let: `= v` follows the condition; then_kw: the `then` keyword is written;
\* else_body: <<>> for no else, <<forms>> for `else: forms`; semi: every
\* statement is closed by `;`
IfShapes ==
    [let : BOOLEAN, cond : IfConds, then_kw : BOOLEAN,
     then_body : SeqsUpTo(DOMAIN IfStmtSources, MaxBranch),
     else_body : {<<>>} \cup {<<b>> : b \in SeqsUpTo(DOMAIN IfStmtSources, MaxBranch)},
     tail : SeqsUpTo(DOMAIN IfStmtSources, MaxIfTail),
     semi : BOOLEAN,
     imports : {<<>>, <<LibraryImport("foo")>>}]

IfBlockTokens(forms, semi) ==
    Flat([i \in 1..Len(forms) |->
              IfStmtSources[forms[i]].src
              \o (IF semi THEN <<Tk("Semicolon")>> ELSE <<>>)])
IfBlockStmts(forms) == [i \in 1..Len(forms) |-> IfStmtSources[forms[i]].ast]

\* if C [= v] [then] S1 [else: S2] end
IfTokens(sh) ==
    <<Tk("If")>> \o sh.cond.src
    \o (IF sh.let THEN <<Tk("Equals"), Id("v")>> ELSE <<>>)
    \o (IF sh.then_kw THEN <<Tk("Then")>> ELSE <<>>)
    \o IfBlockTokens(sh.then_body, sh.semi)
    \o (IF sh.else_body # <<>>
        THEN <<Tk("Else"), Tk("Colon")>> \o IfBlockTokens(sh.else_body[1], sh.semi)
        ELSE <<>>)
    \o <<Tk("End")>>

\* [import foo;] func main() <if> <tail> end
IfProgram(sh) ==
    ImportPrefix(sh.imports, TRUE) \o FuncHead("main") \o IfTokens(sh)
    \o IfBlockTokens(sh.tail, sh.semi) \o <<Tk("End"), EOFTok>>

IfStreams == {IfProgram(sh) : sh \in IfShapes}

\* the statement the if of shape sh stands for
IfStmt(sh) ==
    LET else_block == IF sh.else_body # <<>> THEN <<IfBlockStmts(sh.else_body[1])>>
                      ELSE <<>>
    IN  IF sh.let
        THEN StIfLet(sh.cond.ast, ExVar("v"), IfBlockStmts(sh.then_body), else_block)
        ELSE StIf(sh.cond.ast, IfBlockStmts(sh.then_body), else_block)

\* Parser::new on a program whose main holds an if statement
InitIf ==
    /\ tokens \in IfStreams
    /\ pos = 0
    /\ diags = <<>>
    /\ pc = "imports"
    /\ prog = EmptyProgram
    /\ ctx = NewImportContext
    /\ undefined = <<>>
    /\ gen = <<>>
    /\ last = [op |-> "new", start |-> 0]

SpecIf == InitIf /\ [][NextParse]_vars

\* C28: for `func main() if C then S1 else: S2 end T end`, with or without
\* `= v` after C (if-let), parse returns the one function main whose body is
\* the if statement with then block [S1] and else block Some([S2]), followed
\* by the statements T: the if has consumed its own `end` and the function's
\* `end` closes the function.
C28_IfElse ==
    pc = "done" =>
        \A sh \in IfShapes :
            (/\ tokens = IfProgram(sh)
             /\ sh.then_kw /\ Len(sh.then_body) = 1
             /\ sh.else_body # <<>> /\ Len(sh.else_body[1]) = 1)
            => /\ Len(prog.functions) = 1
               /\ prog.functions[1].name = "main"
               /\ prog.functions[1].body = <<IfStmt(sh)>> \o IfBlockStmts(sh.tail)
====
